---------------------------- MODULE Spec2Model ----------------------------
(***************************************************************************)
(* A model of telegram-muter (src/telegram_muter.py): the Schedule entity   *)
(* and its next-working-day loop, the ScheduleManager with its validation  *)
(* and parent-chain resolution, GroupSetting and the group matcher, the    *)
(* rate-limit handler, and the runs of the mute and unmute commands over   *)
(* the dialogs Telegram lists.                                             *)
(*                                                                         *)
(* Values.  A pendulum Date is its proleptic Gregorian ordinal, a Time is  *)
(* its number of ticks since midnight, TicksPerSecond ticks to the second, *)
(* a WeekDay is its enum value (MONDAY = 0 .. SUNDAY = 6).  An ISO date    *)
(* string "YYYY-MM-DD" is the tuple <<y, m, d>>, an ISO time string        *)
(* "HH:MM:SS" the tuple <<h, m, s>> and "HH:MM:SS.ffffff" the tuple        *)
(* <<h, m, s, f>>, f in ticks.  A chat name or a regular expression is a   *)
(* sequence of one-character strings.  An instant is a number of ticks on  *)
(* the UTC time line.                                                      *)
(***************************************************************************)
EXTENDS Integers, Sequences, FiniteSets, TLC

VARIABLES
    sched,          \* get_next_working_day: the Schedule it runs on (self)
    now,            \* get_next_working_day: pendulum.now(tz), [date, time]
    starting_day,   \* get_next_working_day: the local starting_day
    first_day,      \* the value starting_day had when the loop was entered
    next_day,       \* get_next_working_day: the value returned
    pc,             \* get_next_working_day: "idle", "loop", "done" or "combined"
    next_instant,   \* the instant built from next_day and start_of_day
    toml,           \* the content of config.toml given to Settings(...)
    settings,       \* Settings(...): [status, error]
    schedules,      \* the list of Schedule objects given to ScheduleManager
    group_settings, \* the list of GroupSetting objects given to it
    status,         \* ScheduleManager(...): "new", "built" or "failed"
    manager,        \* the ScheduleManager constructed: [keys, val, group_settings]
    error,          \* the exception ScheduleManager(...) raised, or NoError
    call,           \* the last lookup made on the manager, [op, arg]
    result,         \* the Schedule that lookup returned
    raised,         \* the exception that lookup raised, or NoError
    walk,           \* _resolve_schedule_property: [property_name, current, visited, pc]
    gs_args,        \* GroupSetting(...): the arguments, [name, name_pattern, schedule]
    gs_status,      \* GroupSetting(...): "new", "built" or "failed"
    gs_error,       \* the exception GroupSetting(...) raised, or NoError
    argv,           \* main: the command line after the program name
    end_of_day,     \* the end_of_day the configuration gives its schedules
    clock,          \* the instant pendulum.now() reads
    dialogs,        \* client.get_dialogs(): the list of dialogs, [name, kind]
    server,         \* Telegram's mute_until of each dialog, None when unset
    sent,           \* the notify-settings requests sent, in order
    idx,            \* mute_chats, unmute_chats: the position of the for loop
    nows,           \* mute_chats: the now read for each dialog gone through
    target,         \* unmute_chats: target_mute_until
    run_pc,         \* main: "start", "mute", "unmute", "done", "usage" or "raised"
    history,        \* the runs made before this one, [argv, clock, nows, sent]
    operation,     \* handle_rate_limit: what each attempt of the operation does
    rl_args,        \* handle_rate_limit: the arguments it was called with
    rl_trace,       \* handle_rate_limit: the calls and sleeps made, in order
    rl_result,      \* handle_rate_limit: the value returned or exception raised
    rl_pc           \* handle_rate_limit: "call", "sleep", "returned" or "raised"

dayVars == <<sched, now, starting_day, first_day, next_day, pc, next_instant>>
mgrVars == <<toml, settings, schedules, group_settings, status, manager, error>>
lookupVars == <<call, result, raised, walk>>
bindVars == <<gs_args, gs_status, gs_error>>
runVars ==
    <<argv, end_of_day, clock, dialogs, server, sent, idx, nows, target, run_pc, history>>
rateVars == <<operation, rl_args, rl_trace, rl_result, rl_pc>>
vars == <<dayVars, mgrVars, lookupVars, bindVars, runVars, rateVars>>

(***************************************************************************)
(* Bounds of the model.                                                    *)
(***************************************************************************)
\* the next-working-day loop is followed for at most MaxDay days past Epoch
MaxDay == 8
\* date selectors name dates among the MaxSel days after Epoch
MaxSel == 4
\* a manager is given at most MaxSchedules schedules
MaxSchedules == 3
\* schedules are named 'default' or one of MaxExtra other names
MaxExtra == 2
\* a manager is given at most MaxBindings group settings
MaxBindings == 2
\* a chat name has at most MaxName characters
MaxName == 2
\* a Time and an instant are kept to 1/TicksPerSecond of a second
TicksPerSecond == 2

(***************************************************************************)
(* Calendar primitives (pendulum / datetime).                              *)
(***************************************************************************)
\* Schedule.start_of_day: Optional[Any] = Field(default=None)
None == -1

IsLeap(y) == (y % 4 = 0) /\ ((y % 100 # 0) \/ (y % 400 = 0))

DaysInMonth(y, m) ==
    IF m = 2 THEN (IF IsLeap(y) THEN 29 ELSE 28)
    ELSE IF m \in {4, 6, 9, 11} THEN 30 ELSE 31

DaysBeforeYear(y) ==
    LET p == y - 1 IN p * 365 + (p \div 4) - (p \div 100) + (p \div 400)

RECURSIVE DaysBeforeMonth(_, _)
DaysBeforeMonth(y, m) ==
    IF m = 1 THEN 0 ELSE DaysBeforeMonth(y, m - 1) + DaysInMonth(y, m - 1)

\* is <<y, m, d>> the text of a calendar date (what pendulum.parse accepts)
ValidYmd(s) ==
    /\ s[1] \in 1..9999
    /\ s[2] \in 1..12
    /\ s[3] \in 1..DaysInMonth(s[1], s[2])

\* pendulum.parse("YYYY-MM-DD").date(): the date of an ISO string
YmdToOrd(s) == DaysBeforeYear(s[1]) + DaysBeforeMonth(s[1], s[2]) + s[3]

\* Date.isoformat(): the ISO string of a date
OrdToYmd(n) ==
    LET n0   == n - 1
        n400 == n0 \div 146097
        r400 == n0 % 146097
        n100 == r400 \div 36524
        r100 == r400 % 36524
        n4   == r100 \div 1461
        r4   == r100 % 1461
        n1   == r4 \div 365
        r1   == r4 % 365
        y    == n400 * 400 + n100 * 100 + n4 * 4 + n1 + 1
    IN  IF n1 = 4 \/ n100 = 4
        THEN <<y - 1, 12, 31>>
        ELSE LET m == CHOOSE k \in 1..12 :
                        /\ DaysBeforeMonth(y, k) <= r1
                        /\ r1 < DaysBeforeMonth(y, k) + DaysInMonth(y, k)
             IN  <<y, m, r1 - DaysBeforeMonth(y, m) + 1>>

\* Date.weekday(): 0 is Monday
WeekdayOf(d) == (d + 6) % 7

\* Date.add(days=1)
AddDay(d) == d + 1

\* the ticks of an hour
Hour == 3600 * TicksPerSecond

\* pendulum.parse("HH:MM:SS[.ffffff]").time(): the time of an ISO string
ParseTime(s) ==
    (s[1] * 3600 + s[2] * 60 + s[3]) * TicksPerSecond
        + (IF Len(s) > 3 THEN s[4] ELSE 0)

\* Time.isoformat(): the fraction is written when it is not zero
TimeIsoformat(t) ==
    LET whole == t \div TicksPerSecond
        hms   == <<whole \div 3600, (whole \div 60) % 60, whole % 60>>
    IN  IF t % TicksPerSecond = 0 THEN hms ELSE Append(hms, t % TicksPerSecond)

\* Time.hour, Time.minute and Time.second: the time without its fraction
HourMinuteSecond(t) == t - (t % TicksPerSecond)

\* the first date of the model's window: Thursday 2025-12-25, so that the
\* window holds the turn of the year of test_long_vacation_period
Epoch == YmdToOrd(<<2025, 12, 25>>)

(***************************************************************************)
(* Date selectors: a single Date, or a tuple (start_date, end_date).       *)
(***************************************************************************)
SingleDate(d) == [kind |-> "date", lo |-> d, hi |-> d]
DateInterval(a, b) == [kind |-> "tuple", lo |-> a, hi |-> b]

\* the loop body shared by _is_working_date and _is_nonworking_date
RECURSIVE DateListCovers(_, _, _)
DateListCovers(items, date, i) ==
    IF i > Len(items) THEN FALSE
    ELSE IF items[i].kind = "date"
         THEN (IF date = items[i].lo THEN TRUE
               ELSE DateListCovers(items, date, i + 1))
         ELSE (IF items[i].lo <= date /\ date <= items[i].hi THEN TRUE
               ELSE DateListCovers(items, date, i + 1))

\* Schedule._is_working_date
IsWorkingDate(s, date) == DateListCovers(s.working_weekends, date, 1)

\* Schedule._is_nonworking_date
IsNonworkingDate(s, date) == DateListCovers(s.nonworking_weekdays, date, 1)

(***************************************************************************)
(* Schedule.get_next_working_day.                                          *)
(***************************************************************************)
\* a slip: the time-of-day equal to start_of_day still counts as before it
StartingDayInclusive(s, n) ==
    IF n.time <= s.start_of_day THEN n.date ELSE AddDay(n.date)

\* lines 137-140: the first candidate date
StartingDay(s, n) ==
    IF n.time < s.start_of_day THEN n.date ELSE AddDay(n.date)

\* is_weekend = weekday in [wd.value for wd in self.weekends]
IsWeekend(s, date) ==
    \E i \in 1..Len(s.weekends) : s.weekends[i] = WeekdayOf(date)

\* a slip: the working-weekend test made before the nonworking test
LoopIterationWorkingFirst(s, day) ==
    IF IsWeekend(s, day)
    THEN (IF IsWorkingDate(s, day)
          THEN [returns |-> TRUE, day |-> day]
          ELSE [returns |-> FALSE, day |-> AddDay(day)])
    ELSE IF IsNonworkingDate(s, day)
         THEN [returns |-> FALSE, day |-> AddDay(day)]
         ELSE [returns |-> TRUE, day |-> day]

\* a slip: a rejected weekend date skips the day after it too
LoopIterationSkipsADay(s, day) ==
    IF IsNonworkingDate(s, day)
    THEN [returns |-> FALSE, day |-> AddDay(day)]
    ELSE IF IsWeekend(s, day)
         THEN (IF IsWorkingDate(s, day)
               THEN [returns |-> TRUE, day |-> day]
               ELSE [returns |-> FALSE, day |-> AddDay(AddDay(day))])
         ELSE [returns |-> TRUE, day |-> day]

\* a slip: a nonworking date is rejected without moving to the day after
LoopIterationKeepsNonworking(s, day) ==
    IF IsNonworkingDate(s, day)
    THEN [returns |-> FALSE, day |-> day]
    ELSE IF IsWeekend(s, day)
         THEN (IF IsWorkingDate(s, day)
               THEN [returns |-> TRUE, day |-> day]
               ELSE [returns |-> FALSE, day |-> AddDay(day)])
         ELSE [returns |-> TRUE, day |-> day]

\* lines 143-160: one iteration of the while True loop
LoopIteration(s, day) ==
    IF IsNonworkingDate(s, day)
    THEN [returns |-> FALSE, day |-> AddDay(day)]
    ELSE IF IsWeekend(s, day)
         THEN (IF IsWorkingDate(s, day)
               THEN [returns |-> TRUE, day |-> day]
               ELSE [returns |-> FALSE, day |-> AddDay(day)])
         ELSE [returns |-> TRUE, day |-> day]

\* lines 135-140: read the clock and choose the first candidate
GetNextWorkingDay ==
    /\ pc = "idle"
    /\ starting_day' = StartingDay(sched, now)
    /\ first_day' = StartingDay(sched, now)
    /\ pc' = "loop"
    /\ UNCHANGED <<sched, now, next_day, next_instant, mgrVars, lookupVars, bindVars, runVars, rateVars>>

\* lines 142-160: an iteration that returns the candidate
LoopReturn ==
    /\ pc = "loop"
    /\ LoopIteration(sched, starting_day).returns
    /\ next_day' = LoopIteration(sched, starting_day).day
    /\ pc' = "done"
    /\ UNCHANGED <<sched, now, starting_day, first_day, next_instant, mgrVars, lookupVars, bindVars, runVars, rateVars>>

\* lines 142-160: an iteration that rejects the candidate and continues
LoopContinue ==
    /\ pc = "loop"
    /\ ~LoopIteration(sched, starting_day).returns
    /\ starting_day < Epoch + MaxDay
    /\ starting_day' = LoopIteration(sched, starting_day).day
    /\ UNCHANGED <<sched, now, first_day, next_day, pc, next_instant, mgrVars, lookupVars, bindVars, runVars, rateVars>>

(***************************************************************************)
(* Schedule: the entity and its field validators.                          *)
(***************************************************************************)
NewSchedule(name, parent, start_of_day, timezone, weekends, ww, nw) ==
    [name |-> name, parent |-> parent, start_of_day |-> start_of_day,
     timezone |-> timezone, weekends |-> weekends,
     working_weekends |-> ww, nonworking_weekdays |-> nw]

\* a Schedule with every field at its Field(default=...)
DefaultSchedule(name, parent) ==
    NewSchedule(name, parent, None, "", <<>>, <<>>, <<>>)

NoSchedule == DefaultSchedule("", "")

NoError == [kind |-> "", what |-> "", name |-> ""]
ValueError(what, name) == [kind |-> "ValueError", what |-> what, name |-> name]
KeyError(name) == [kind |-> "KeyError", what |-> "", name |-> name]

\* weekday_name_map of get_effective_schedule, by WeekDay value
WeekdayNames == <<"Mon", "Tue", "Wed", "Thu", "Fri", "Sat", "Sun">>

\* the Cyrillic tokens of weekday_map, written here in Latin letters
WeekdayNamesRu == <<"Pn", "Vt", "Sr", "Cht", "Pt", "Sb", "Vs">>

\* weekday_map of parse_weekends: the WeekDay of a token, None when unknown
WeekdayOfToken(item) ==
    IF \E i \in 1..7 : WeekdayNames[i] = item
    THEN (CHOOSE i \in 1..7 : WeekdayNames[i] = item) - 1
    ELSE IF \E i \in 1..7 : WeekdayNamesRu[i] = item
         THEN (CHOOSE i \in 1..7 : WeekdayNamesRu[i] = item) - 1
         ELSE None

\* parse_weekends: [ok, value]
ParseWeekends(v) ==
    IF \E i \in DOMAIN v : WeekdayOfToken(v[i]) = None
    THEN [ok |-> FALSE, value |-> <<>>]
    ELSE [ok |-> TRUE, value |-> [i \in DOMAIN v |-> WeekdayOfToken(v[i])]]

\* parse_start_of_day on an ISO string, or on None (written <<>> where a
\* string is expected)
ParseStartOfDay(v) == IF v = <<>> THEN None ELSE ParseTime(v)

\* the text forms of a date selector: a string, or a list of two strings
DateString(ymd) == [kind |-> "str", lo |-> ymd, hi |-> ymd]
DateStringPair(a, b) == [kind |-> "list", lo |-> a, hi |-> b]

\* _parse_date_list over _parse_iso_date: [ok, value]
ParseDateList(v) ==
    IF \E i \in DOMAIN v :
          \/ ~ValidYmd(v[i].lo)
          \/ v[i].kind = "list" /\ ~ValidYmd(v[i].hi)
          \/ v[i].kind = "list" /\ YmdToOrd(v[i].lo) > YmdToOrd(v[i].hi)
    THEN [ok |-> FALSE, value |-> <<>>]
    ELSE [ok |-> TRUE,
          value |-> [i \in DOMAIN v |->
                       IF v[i].kind = "str"
                       THEN SingleDate(YmdToOrd(v[i].lo))
                       ELSE DateInterval(YmdToOrd(v[i].lo), YmdToOrd(v[i].hi))]]

\* Schedule(...) from text: the validators applied, [ok, value]
ScheduleFromText(name, parent, start_of_day, timezone, weekends, wws, nws) ==
    LET w  == ParseWeekends(weekends)
        ww == ParseDateList(wws)
        nw == ParseDateList(nws)
    IN  IF w.ok /\ ww.ok /\ nw.ok
        THEN [ok |-> TRUE,
              value |-> NewSchedule(name, parent, ParseStartOfDay(start_of_day),
                                    timezone, w.value, ww.value, nw.value)]
        ELSE [ok |-> FALSE, value |-> NoSchedule]

(***************************************************************************)
(* ScheduleManager.__init__ and its validation.                            *)
(***************************************************************************)
NoManager == [keys |-> <<>>, val |-> <<>>, group_settings |-> <<>>]

\* the keys of {s.name: s for s in schedules[1..i]}, in insertion order
RECURSIVE DictKeys(_, _)
DictKeys(list, i) ==
    IF i = 0 THEN <<>>
    ELSE LET ks == DictKeys(list, i - 1)
         IN  IF \E j \in 1..Len(ks) : ks[j] = list[i].name
             THEN ks
             ELSE Append(ks, list[i].name)

\* {s.name: s for s in schedules}: a later schedule replaces an earlier one
\* of the same name
SchedulesDict(list) ==
    [keys |-> DictKeys(list, Len(list)),
     val  |-> [n \in {list[i].name : i \in DOMAIN list} |->
                 list[CHOOSE i \in DOMAIN list :
                        /\ list[i].name = n
                        /\ \A j \in DOMAIN list : list[j].name = n => j <= i]]]

\* name in self.schedules
Has(d, n) == n \in DOMAIN d.val

\* a slip: the parent references are not checked
UnknownParentUnchecked(list, d, i) == 0

\* lines 207-209: the index of the first schedule from list[i] on whose
\* parent is not empty and not declared, 0 when there is none
RECURSIVE UnknownParent(_, _, _)
UnknownParent(list, d, i) ==
    IF i > Len(list) THEN 0
    ELSE IF list[i].parent # "" /\ ~Has(d, list[i].parent) THEN i
         ELSE UnknownParent(list, d, i + 1)

\* a slip: the error names the schedule that recurred, not the one the walk
\* started from
RECURSIVE WalkParentsNamesCurrent(_, _, _, _)
WalkParentsNamesCurrent(d, schedule_name, current, visited) ==
    IF current = "" THEN NoError
    ELSE IF current \in visited THEN ValueError("circular", current)
    ELSE IF ~Has(d, current) THEN KeyError(current)
    ELSE WalkParentsNamesCurrent(d, schedule_name, d.val[current].parent,
                                 visited \cup {current})

\* lines 216-223: the while loop of one schedule_name
RECURSIVE WalkParents(_, _, _, _)
WalkParents(d, schedule_name, current, visited) ==
    IF current = "" THEN NoError
    ELSE IF current \in visited THEN ValueError("circular", schedule_name)
    ELSE IF ~Has(d, current) THEN KeyError(current)
    ELSE WalkParents(d, schedule_name, d.val[current].parent,
                     visited \cup {current})

\* lines 215-223: the for loop over self.schedules, from its i-th key on
RECURSIVE ValidateFrom(_, _)
ValidateFrom(d, i) ==
    IF i > Len(d.keys) THEN NoError
    ELSE LET e == WalkParents(d, d.keys[i], d.keys[i], {})
         IN  IF e # NoError THEN e ELSE ValidateFrom(d, i + 1)

\* a slip: only the chain of 'default' is walked
ValidateOnlyDefault(d) == WalkParents(d, "default", "default", {})

\* ScheduleManager._validate_no_circular_dependencies
ValidateNoCircularDependencies(d) == ValidateFrom(d, 1)

Failed(e) == [status |-> "failed", error |-> e, manager |-> NoManager]

\* a slip: the hierarchy is not checked for circular dependencies
ManagerInitNoCycleCheck(list, gs) ==
    LET d   == SchedulesDict(list)
        bad == UnknownParent(list, d, 1)
    IN  IF ~Has(d, "default") THEN Failed(ValueError("default", ""))
        ELSE IF bad # 0 THEN Failed(ValueError("parent", list[bad].name))
        ELSE [status |-> "built", error |-> NoError,
              manager |-> [keys |-> d.keys, val |-> d.val,
                           group_settings |-> gs]]

\* a slip: the check for 'default' is missing
ManagerInitNoDefaultCheck(list, gs) ==
    LET d   == SchedulesDict(list)
        bad == UnknownParent(list, d, 1)
        cyc == ValidateNoCircularDependencies(d)
    IN  IF bad # 0 THEN Failed(ValueError("parent", list[bad].name))
        ELSE IF cyc # NoError THEN Failed(cyc)
        ELSE [status |-> "built", error |-> NoError,
              manager |-> [keys |-> d.keys, val |-> d.val,
                           group_settings |-> gs]]

\* a slip: the parent references are checked before the presence of
\* 'default'
ManagerInitParentFirst(list, gs) ==
    LET d   == SchedulesDict(list)
        bad == UnknownParent(list, d, 1)
        cyc == ValidateNoCircularDependencies(d)
    IN  IF bad # 0 THEN Failed(ValueError("parent", list[bad].name))
        ELSE IF ~Has(d, "default") THEN Failed(ValueError("default", ""))
        ELSE IF cyc # NoError THEN Failed(cyc)
        ELSE [status |-> "built", error |-> NoError,
              manager |-> [keys |-> d.keys, val |-> d.val,
                           group_settings |-> gs]]

\* ScheduleManager.__init__: [status, error, manager]
ManagerInit(list, gs) ==
    LET d   == SchedulesDict(list)
        bad == UnknownParent(list, d, 1)
        cyc == ValidateNoCircularDependencies(d)
    IN  IF ~Has(d, "default") THEN Failed(ValueError("default", ""))
        ELSE IF bad # 0 THEN Failed(ValueError("parent", list[bad].name))
        ELSE IF cyc # NoError THEN Failed(cyc)
        ELSE [status |-> "built", error |-> NoError,
              manager |-> [keys |-> d.keys, val |-> d.val,
                           group_settings |-> gs]]

\* ScheduleManager(schedules, group_settings)
Construct ==
    /\ status = "new"
    /\ LET r == ManagerInit(schedules, group_settings)
       IN  /\ status' = r.status
           /\ error' = r.error
           /\ manager' = r.manager
    /\ UNCHANGED <<toml, settings, schedules, group_settings, dayVars, lookupVars, bindVars, runVars, rateVars>>

\* no config.toml has been read
NoToml == [time_settings |-> <<>>, schedules |-> <<>>, group_settings |-> <<>>]

\* no Settings object is under construction
NoSettings == [status |-> "none", error |-> NoError]

\* _resolve_schedule_property is not running
NoWalk ==
    [property_name |-> "", current |-> "", visited |-> <<>>, value |-> <<>>,
     pc |-> "none"]

\* no manager is under construction and no lookup has been made
NoManagerState ==
    /\ schedules = <<>>
    /\ group_settings = <<>>
    /\ status = "none"
    /\ manager = NoManager
    /\ error = NoError
    /\ call = [op |-> "", arg |-> ""]
    /\ result = NoSchedule
    /\ raised = NoError
    /\ walk = NoWalk
    /\ toml = NoToml
    /\ settings = NoSettings

\* get_next_working_day is not running
NoDayState ==
    /\ sched = NoSchedule
    /\ now = [date |-> None, time |-> None]
    /\ starting_day = None
    /\ first_day = None
    /\ next_day = None
    /\ pc = "none"
    /\ next_instant = None

\* no GroupSetting is under construction
NoBindingState ==
    /\ gs_args = [name |-> <<>>, name_pattern |-> <<>>, schedule |-> ""]
    /\ gs_status = "none"
    /\ gs_error = NoError

\* no command is running
NoRunState ==
    /\ argv = <<>>
    /\ end_of_day = None
    /\ clock = None
    /\ dialogs = <<>>
    /\ server = <<>>
    /\ sent = <<>>
    /\ idx = 0
    /\ nows = <<>>
    /\ target = None
    /\ run_pc = "none"
    /\ history = <<>>

\* handle_rate_limit is not running
NoRateState ==
    /\ operation = <<>>
    /\ rl_args = ""
    /\ rl_trace = <<>>
    /\ rl_result = [kind |-> "", value |-> ""]
    /\ rl_pc = "none"

(***************************************************************************)
(* The schedule lists validation is run on.                                *)
(***************************************************************************)
ExtraNames == <<"a", "b", "c", "d", "e">>

\* the names schedules are declared under
SchedNames == {"default"} \cup {ExtraNames[i] : i \in 1..MaxExtra}

\* what a parent field may hold: nothing, a declared name, or another name
ParentNames == SchedNames \cup {"", "zz"}

RECURSIVE SeqsUpTo(_, _)
\* the sequences over S of length at most n
SeqsUpTo(S, n) ==
    IF n = 0 THEN {<<>>}
    ELSE LET shorter == SeqsUpTo(S, n - 1)
         IN  shorter \cup {Append(q, x) : q \in {r \in shorter : Len(r) = n - 1},
                                          x \in S}

InitValidate ==
    /\ schedules \in SeqsUpTo({DefaultSchedule(n, p) : n \in SchedNames,
                                                       p \in ParentNames},
                              MaxSchedules)
    /\ group_settings = <<>>
    /\ status = "new"
    /\ manager = NoManager
    /\ error = NoError
    /\ call = [op |-> "", arg |-> ""]
    /\ result = NoSchedule
    /\ raised = NoError
    /\ walk = NoWalk
    /\ toml = NoToml
    /\ settings = NoSettings
    /\ NoDayState
    /\ NoBindingState
    /\ NoRunState
    /\ NoRateState

NextValidate == Construct

SpecValidate == InitValidate /\ [][NextValidate]_vars

(***************************************************************************)
(* ScheduleManager: resolution through the parent chain.                   *)
(***************************************************************************)
\* a slip: a list counts as set when it is empty too
PropertyIsSetEvenIfEmpty(property_name, value) ==
    IF property_name = "start_of_day" THEN value # None
    ELSE IF property_name = "timezone" THEN value # ""
    ELSE TRUE

\* lines 233-239: the test that ends the walk at a schedule
PropertyIsSet(property_name, value) ==
    IF property_name = "start_of_day" THEN value # None
    ELSE IF property_name = "timezone" THEN value # ""
    ELSE Len(value) > 0

\* lines 243-249: what the walk returns when it runs off the chain
PropertyDefault(property_name) ==
    IF property_name = "timezone" THEN "auto"
    ELSE IF property_name \in {"weekends", "working_weekends", "nonworking_weekdays"}
         THEN <<>>
         ELSE None

PropertyNames ==
    {"start_of_day", "timezone", "weekends", "working_weekends", "nonworking_weekdays"}

\* a slip: every property is read from the one schedule that is the nearest
\* to set any property at all
RECURSIVE ResolveFromNearestConfigured(_, _, _)
ResolveFromNearestConfigured(m, current, property_name) ==
    IF current = "" THEN PropertyDefault(property_name)
    ELSE LET schedule == m.val[current]
         IN  IF \E q \in PropertyNames : PropertyIsSet(q, schedule[q])
             THEN (IF PropertyIsSet(property_name, schedule[property_name])
                   THEN schedule[property_name]
                   ELSE PropertyDefault(property_name))
             ELSE ResolveFromNearestConfigured(m, schedule.parent, property_name)

\* ScheduleManager._resolve_schedule_property
RECURSIVE ResolveScheduleProperty(_, _, _)
ResolveScheduleProperty(m, current, property_name) ==
    IF current = "" THEN PropertyDefault(property_name)
    ELSE LET schedule == m.val[current]
             value    == schedule[property_name]
         IN  IF PropertyIsSet(property_name, value) THEN value
             ELSE ResolveScheduleProperty(m, schedule.parent, property_name)

\* lines 280-291: convert_date_list_to_strings
ConvertDateListToStrings(date_list) ==
    [i \in DOMAIN date_list |->
        IF date_list[i].kind = "date"
        THEN DateString(OrdToYmd(date_list[i].lo))
        ELSE DateStringPair(OrdToYmd(date_list[i].lo), OrdToYmd(date_list[i].hi))]

\* a slip: the day starts at midnight when no schedule says when
StartOfDayFallbackMidnight == <<0, 0, 0>>

\* line 264: the string "09:00:00" used when start_of_day resolves to None
StartOfDayFallback == <<9, 0, 0>>

\* lines 256-306: the effective schedule of a key of self.schedules
EffectiveScheduleFor(m, schedule_name) ==
    LET start_of_day_raw == ResolveScheduleProperty(m, schedule_name, "start_of_day")
        timezone == ResolveScheduleProperty(m, schedule_name, "timezone")
        weekends_raw == ResolveScheduleProperty(m, schedule_name, "weekends")
        working_weekends_raw ==
            ResolveScheduleProperty(m, schedule_name, "working_weekends")
        nonworking_weekdays_raw ==
            ResolveScheduleProperty(m, schedule_name, "nonworking_weekdays")
        start_of_day == IF start_of_day_raw # None
                        THEN TimeIsoformat(start_of_day_raw)
                        ELSE StartOfDayFallback
        weekends == [i \in DOMAIN weekends_raw |-> WeekdayNames[weekends_raw[i] + 1]]
    IN  ScheduleFromText("_effective_" \o schedule_name, "", start_of_day,
                         IF timezone = "" THEN "auto" ELSE timezone,
                         weekends,
                         ConvertDateListToStrings(working_weekends_raw),
                         ConvertDateListToStrings(nonworking_weekdays_raw)).value

\* a slip: a name that is not declared gets the built-in defaults, not the
\* settings of 'default'
GetEffectiveScheduleBuiltIn(m, name) ==
    IF Has(m, name) THEN EffectiveScheduleFor(m, name)
    ELSE ScheduleFromText("_effective_default", "", <<9, 0, 0>>, "auto",
                          <<>>, <<>>, <<>>).value

\* ScheduleManager.get_effective_schedule
GetEffectiveSchedule(m, name) ==
    EffectiveScheduleFor(m, IF Has(m, name) THEN name ELSE "default")

\* a call of manager.get_effective_schedule(n), the one lookup of the run
CallGetEffectiveSchedule ==
    /\ status = "built"
    /\ call.op = ""
    /\ \E n \in SchedNames \cup {"zz"} :
         /\ call' = [op |-> "get_effective_schedule", arg |-> n]
         /\ result' = GetEffectiveSchedule(manager, n)
         /\ raised' = NoError
    /\ UNCHANGED <<walk, mgrVars, dayVars, bindVars, runVars, rateVars>>

(***************************************************************************)
(* The schedule hierarchies resolution is run on: every name declared      *)
(* once, each schedule setting one of a few groups of properties, with     *)
(* values of its own.                                                      *)
(***************************************************************************)
NameList == <<"default">> \o SubSeq(ExtraNames, 1, MaxExtra)

Zones == <<"UTC", "auto", "Europe/London", "Asia/Tokyo", "Europe/Paris", "Asia/Dubai">>

WeekendsOfIndex == <<<<5, 6>>, <<6>>, <<4, 5>>, <<0>>, <<1>>, <<2>>>>

\* the groups of properties a declared schedule sets
Profiles ==
    {{}, {"start_of_day"}, {"timezone", "weekends"},
     {"working_weekends", "nonworking_weekdays"}, PropertyNames}

\* the i-th schedule, with the properties of profile set and parent p;
\* the first one starts its day at midnight
ProfiledSchedule(i, p, profile) ==
    NewSchedule(NameList[i], p,
        IF "start_of_day" \in profile THEN ParseTime(<<i - 1, 0, 0>>) ELSE None,
        IF "timezone" \in profile THEN Zones[i] ELSE "",
        IF "weekends" \in profile THEN WeekendsOfIndex[i] ELSE <<>>,
        IF "working_weekends" \in profile
            THEN <<SingleDate(Epoch + i)>> ELSE <<>>,
        IF "nonworking_weekdays" \in profile
            THEN <<DateInterval(Epoch + i, Epoch + i + 6)>> ELSE <<>>)

InitResolve ==
    /\ \E ps \in [1..Len(NameList) -> (SchedNames \cup {""}) \X Profiles] :
         /\ schedules = [i \in 1..Len(NameList) |->
                            ProfiledSchedule(i, ps[i][1], ps[i][2])]
         /\ ManagerInit(schedules, <<>>).status = "built"
    /\ group_settings = <<>>
    /\ status = "new"
    /\ manager = NoManager
    /\ error = NoError
    /\ call = [op |-> "", arg |-> ""]
    /\ result = NoSchedule
    /\ raised = NoError
    /\ walk = NoWalk
    /\ toml = NoToml
    /\ settings = NoSettings
    /\ NoDayState
    /\ NoBindingState
    /\ NoRunState
    /\ NoRateState

NextResolve == Construct \/ CallGetEffectiveSchedule

SpecResolve == InitResolve /\ [][NextResolve]_vars

(***************************************************************************)
(* Regular expressions (re.match), over the patterns made of literal       *)
(* characters, ".", a postfix "*", "^" and "$".                            *)
(***************************************************************************)
\* re.compile accepts the pattern: every "*" has something to repeat
RegexValid(p) ==
    \A i \in DOMAIN p : p[i] = "*" => i > 1 /\ p[i - 1] \notin {"*", "^", "$"}

\* the one-character pattern a matches the character c
AtomMatches(a, c) == a = "." \/ a = c

\* the pattern p[i..] matches a stretch of s that begins at position j
RECURSIVE MatchHere(_, _, _, _)
MatchHere(p, i, s, j) ==
    IF i > Len(p) THEN TRUE
    ELSE IF i < Len(p) /\ p[i + 1] = "*"
         THEN \E k \in 0..(Len(s) + 1 - j) :
                 /\ \A x \in j..(j + k - 1) : AtomMatches(p[i], s[x])
                 /\ MatchHere(p, i + 2, s, j + k)
    ELSE IF p[i] = "^" THEN j = 1 /\ MatchHere(p, i + 1, s, j)
    ELSE IF p[i] = "$" THEN j = Len(s) + 1 /\ MatchHere(p, i + 1, s, j)
    ELSE j <= Len(s) /\ AtomMatches(p[i], s[j]) /\ MatchHere(p, i + 1, s, j + 1)

\* a slip: re.search in the place of re.match
ReSearch(p, s) == \E j \in 1..(Len(s) + 1) : MatchHere(p, 1, s, j)

\* re.match(pattern, string) returns a match
ReMatch(p, s) == MatchHere(p, 1, s, 1)

ReError == [kind |-> "re.error", what |-> "", name |-> ""]

(***************************************************************************)
(* GroupSetting and ScheduleManager.get_schedule_for_group.                *)
(***************************************************************************)
NewGroupSetting(name, name_pattern, schedule) ==
    [name |-> name, name_pattern |-> name_pattern, schedule |-> schedule]

\* a slip: the test for both fields being given is missing
GroupSettingInitAtLeastOne(name, name_pattern, schedule) ==
    IF name = <<>> /\ name_pattern = <<>>
    THEN [status |-> "failed", error |-> ValueError("either", "")]
    ELSE [status |-> "built", error |-> NoError]

\* GroupSetting(...): model_post_init on the fields given, [status, error]
GroupSettingInit(name, name_pattern, schedule) ==
    IF name = <<>> /\ name_pattern = <<>>
    THEN [status |-> "failed", error |-> ValueError("either", "")]
    ELSE IF name # <<>> /\ name_pattern # <<>>
    THEN [status |-> "failed", error |-> ValueError("exclusive", "")]
    ELSE [status |-> "built", error |-> NoError]

\* GroupSetting(name=..., name_pattern=..., schedule=...)
ConstructGroupSetting ==
    /\ gs_status = "new"
    /\ LET r == GroupSettingInit(gs_args.name, gs_args.name_pattern, gs_args.schedule)
       IN  /\ gs_status' = r.status
           /\ gs_error' = r.error
    /\ UNCHANGED <<gs_args, dayVars, mgrVars, lookupVars, runVars, rateVars>>

\* lines 311-313: the first binding whose name is the group's, 0 if none
RECURSIVE ExactPass(_, _, _)
ExactPass(gs, group_name, i) ==
    IF i > Len(gs) THEN 0
    ELSE IF gs[i].name # <<>> /\ gs[i].name = group_name THEN i
         ELSE ExactPass(gs, group_name, i + 1)

\* lines 316-318: the first binding at which the loop over the patterns
\* ends, by a match or by re.match raising; 0 if it runs to the end
RECURSIVE PatternPass(_, _, _)
PatternPass(gs, group_name, i) ==
    IF i > Len(gs) THEN 0
    ELSE IF /\ gs[i].name_pattern # <<>>
            /\ \/ ~RegexValid(gs[i].name_pattern)
               \/ ReMatch(gs[i].name_pattern, group_name)
         THEN i
         ELSE PatternPass(gs, group_name, i + 1)

Returns(schedule) == [result |-> schedule, raised |-> NoError]

\* a slip: one pass, the first binding that applies either way
GetScheduleForGroupOnePass(m, group_name) ==
    LET gs == m.group_settings
        hits == {i \in DOMAIN gs :
                   \/ gs[i].name # <<>> /\ gs[i].name = group_name
                   \/ /\ gs[i].name_pattern # <<>>
                      /\ RegexValid(gs[i].name_pattern)
                      /\ ReMatch(gs[i].name_pattern, group_name)}
    IN  IF hits = {} THEN Returns(GetEffectiveSchedule(m, "default"))
        ELSE Returns(GetEffectiveSchedule(m,
                 gs[CHOOSE i \in hits : \A j \in hits : i <= j].schedule))

\* ScheduleManager.get_schedule_for_group: [result, raised]
GetScheduleForGroup(m, group_name) ==
    LET gs == m.group_settings
        e  == ExactPass(gs, group_name, 1)
        p  == PatternPass(gs, group_name, 1)
    IN  IF e # 0 THEN Returns(GetEffectiveSchedule(m, gs[e].schedule))
        ELSE IF p # 0
             THEN (IF RegexValid(gs[p].name_pattern)
                   THEN Returns(GetEffectiveSchedule(m, gs[p].schedule))
                   ELSE [result |-> NoSchedule, raised |-> ReError])
             ELSE Returns(GetEffectiveSchedule(m, "default"))

(***************************************************************************)
(* The bindings and chat names the group matcher is run on.                *)
(***************************************************************************)
Letters == {"a", "b"}

RECURSIVE Words(_)
\* the chat names of n letters
Words(n) ==
    IF n = 0 THEN {<<>>}
    ELSE {Append(w, c) : w \in Words(n - 1), c \in Letters}

ChatNames == UNION {Words(n) : n \in 1..MaxName}

\* the chat names bindings are declared for
BoundNames == {<<"b">>, <<"a", "b">>}

\* the last one does not compile: its "*" has nothing to repeat
Patterns ==
    {<<"a">>, <<"b">>, <<"a", ".", "*">>, <<".", "*", "b">>, <<"^", "b">>,
     <<"b", "$">>, <<"*", "a">>}

\* the schedules bindings refer to: a declared one and an undeclared one
BoundSchedules == {"a", "zz"}

Bindings ==
    {NewGroupSetting(n, <<>>, s) : n \in BoundNames, s \in BoundSchedules}
    \cup {NewGroupSetting(<<>>, q, s) : q \in Patterns, s \in BoundSchedules}

\* a call of manager.get_schedule_for_group(n), the one lookup of the run
CallGetScheduleForGroup ==
    /\ status = "built"
    /\ call.op = ""
    /\ \E n \in ChatNames :
         LET r == GetScheduleForGroup(manager, n)
         IN  /\ call' = [op |-> "get_schedule_for_group", arg |-> n]
             /\ result' = r.result
             /\ raised' = r.raised
    /\ UNCHANGED <<walk, mgrVars, dayVars, bindVars, runVars, rateVars>>

\* the hierarchies the matcher is run over: one of schedules that set
\* every property and have no parent, and one where 'default' sets nothing
\* and inherits from the next schedule
MatchHierarchies ==
    {[i \in 1..Len(NameList) |-> ProfiledSchedule(i, "", PropertyNames)],
     [i \in 1..Len(NameList) |->
        IF i = 1 THEN ProfiledSchedule(1, NameList[2], {})
        ELSE IF i = 2 THEN ProfiledSchedule(2, "", {"start_of_day"})
        ELSE ProfiledSchedule(i, "default", {"timezone", "weekends"})]}

\* lists of three pattern bindings: two whose patterns match the chat name
\* "a", declared after one whose pattern does not compile, or does not match
ThreePatternBindings ==
    {<<NewGroupSetting(<<>>, q, "zz"),
       NewGroupSetting(<<>>, <<"a">>, "a"),
       NewGroupSetting(<<>>, <<"a", ".", "*">>, "zz")>> : q \in {<<"*", "a">>, <<"b">>}}

InitMatch ==
    /\ schedules \in MatchHierarchies
    /\ group_settings \in SeqsUpTo(Bindings, MaxBindings) \cup ThreePatternBindings
    /\ status = "new"
    /\ manager = NoManager
    /\ error = NoError
    /\ call = [op |-> "", arg |-> ""]
    /\ result = NoSchedule
    /\ raised = NoError
    /\ walk = NoWalk
    /\ toml = NoToml
    /\ settings = NoSettings
    /\ NoDayState
    /\ NoBindingState
    /\ NoRunState
    /\ NoRateState

NextMatch == Construct \/ CallGetScheduleForGroup \/ CallGetEffectiveSchedule

SpecMatch == InitMatch /\ [][NextMatch]_vars

(***************************************************************************)
(* The fields GroupSetting is constructed from.                            *)
(***************************************************************************)
InitBinding ==
    /\ gs_args \in [name : {<<>>} \cup ChatNames,
                    name_pattern : {<<>>} \cup Patterns,
                    schedule : {"default"} \cup BoundSchedules]
    /\ gs_status = "new"
    /\ gs_error = NoError
    /\ NoManagerState
    /\ NoDayState
    /\ NoRunState
    /\ NoRateState

NextBinding == ConstructGroupSetting

SpecBinding == InitBinding /\ [][NextBinding]_vars

(***************************************************************************)
(* handle_rate_limit.  The operation is given by what its successive calls *)
(* do: raise FloodWaitError with a number of seconds, return a value, or   *)
(* raise another exception.                                                *)
(***************************************************************************)
\* a rate limit is signalled at most MaxFlood times in a row
MaxFlood == 3

FloodWaitError(seconds) == [kind |-> "flood", value |-> seconds]
ReturnValue(v) == [kind |-> "value", value |-> v]
OtherError(e) == [kind |-> "error", value |-> e]

CallEvent(args) == [ev |-> "call", with |-> args]
SleepEvent(seconds) == [ev |-> "sleep", with |-> seconds]

\* the number of times the operation has been called
CallsMade(trace) == Cardinality({i \in DOMAIN trace : trace[i].ev = "call"})

\* a slip: the wait is a fixed second, whatever the signal carries
SleepOneSecond(e) == 1

\* line 360: asyncio.sleep(e.seconds)
SleepSeconds(e) == e.value

\* line 357: one attempt, await operation(*args, **kwargs)
RateCall ==
    /\ rl_pc = "call"
    /\ LET outcome == operation[CallsMade(rl_trace) + 1]
       IN  /\ rl_trace' = Append(rl_trace, CallEvent(rl_args))
           /\ IF outcome.kind = "flood"
              THEN rl_pc' = "sleep" /\ rl_result' = outcome
              ELSE IF outcome.kind = "value"
              THEN rl_pc' = "returned" /\ rl_result' = outcome
              ELSE rl_pc' = "raised" /\ rl_result' = outcome
    /\ UNCHANGED <<operation, rl_args, dayVars, mgrVars, lookupVars, bindVars, runVars>>

\* lines 358-360: the FloodWaitError caught is slept off, and the loop
\* goes round
RateSleep ==
    /\ rl_pc = "sleep"
    /\ rl_trace' = Append(rl_trace, SleepEvent(SleepSeconds(rl_result)))
    /\ rl_pc' = "call"
    /\ UNCHANGED <<operation, rl_args, rl_result, dayVars, mgrVars, lookupVars, bindVars, runVars>>

\* the waits a signal may carry
WaitSeconds == {1, 2, 3}

\* what an operation may do: signal a rate limit up to MaxFlood times, then
\* return a value or raise something else
Operations ==
    {floods \o <<last>> :
        floods \in SeqsUpTo({FloodWaitError(w) : w \in WaitSeconds}, MaxFlood),
        last \in {ReturnValue("success"), ReturnValue("other"), OtherError("rpc")}}

InitRate ==
    /\ operation \in Operations
    /\ rl_args \in {"arg1", "arg2"}
    /\ rl_trace = <<>>
    /\ rl_result = [kind |-> "", value |-> ""]
    /\ rl_pc = "call"
    /\ NoManagerState
    /\ NoDayState
    /\ NoBindingState
    /\ NoRunState

NextRate == RateCall \/ RateSleep

SpecRate == InitRate /\ [][NextRate]_vars

(***************************************************************************)
(* Instants and zones.  An instant is a number of ticks on the UTC time    *)
(* line, counted from the midnight that begins the day Epoch; a zone is    *)
(* its offset from UTC in ticks.                                           *)
(***************************************************************************)
DayLength == 24 * Hour

\* pendulum.local_timezone(): the zone of the machine, here UTC+3
LocalOffset == 3 * Hour

\* pendulum.timezone(name), and 'auto' for the local zone
ZoneOffset(timezone_setting) ==
    IF timezone_setting = "auto" THEN LocalOffset
    ELSE IF timezone_setting = "Asia/Tokyo" THEN 9 * Hour
    ELSE IF timezone_setting = "Asia/Dubai" THEN 4 * Hour
    ELSE IF timezone_setting = "Europe/Paris" THEN Hour
    ELSE 0

\* pendulum.datetime(year, month, day, hour, minute, second, tz=tz)
Datetime(date, time, offset) == (date - Epoch) * DayLength + time - offset

\* pendulum.now(tz): the date and the time of day an instant has in a zone
NowIn(instant, offset) ==
    [date |-> Epoch + ((instant + offset) \div DayLength),
     time |-> (instant + offset) % DayLength]

\* the while True loop of get_next_working_day, followed for at most fuel
\* iterations; None when it has not returned by then
RECURSIVE NextWorkingDayFrom(_, _, _)
NextWorkingDayFrom(s, day, fuel) ==
    IF fuel = 0 THEN None
    ELSE LET it == LoopIteration(s, day)
         IN  IF it.returns THEN it.day
             ELSE NextWorkingDayFrom(s, it.day, fuel - 1)

\* a slip: today and the time of day are read in the local zone, whatever
\* timezone_setting says
NextWorkingDayInLocalZone(s, timezone_setting, instant) ==
    NextWorkingDayFrom(s, StartingDay(s, NowIn(instant, LocalOffset)), MaxDay)

\* Schedule.get_next_working_day(timezone_setting), called at an instant
NextWorkingDay(s, timezone_setting, instant) ==
    NextWorkingDayFrom(s, StartingDay(s, NowIn(instant, ZoneOffset(timezone_setting))),
                       MaxDay)

\* lines 483-501 and 393-410: the next working day of a schedule at its
\* start_of_day, in its zone; None when the date loop does not return
NextWorkingInstant(s, instant) ==
    LET next_working_day == NextWorkingDay(s, s.timezone, instant)
    IN  IF next_working_day = None THEN None
        ELSE Datetime(next_working_day, HourMinuteSecond(s.start_of_day),
                      ZoneOffset(s.timezone))

(***************************************************************************)
(* Dialogs and the requests made for them.                                 *)
(***************************************************************************)
\* a dialog's entity: its telethon type and, where the type has one, its
\* broadcast flag
Entity(type, has_broadcast, broadcast) ==
    [type |-> type, has_broadcast |-> has_broadcast, broadcast |-> broadcast]

Chat == Entity("Chat", FALSE, FALSE)
Megagroup == Entity("Channel", TRUE, FALSE)
BroadcastChannel == Entity("Channel", TRUE, TRUE)
User == Entity("User", FALSE, FALSE)

NoPeer == "None"

\* a slip: every channel gets a peer, a broadcast channel too
GetPeerForAnyChannel(entity) ==
    IF entity.type = "Chat" THEN "InputPeerChat"
    ELSE IF entity.has_broadcast THEN "InputPeerChannel"
    ELSE NoPeer

\* get_peer_for_dialog
GetPeerForDialog(entity) ==
    IF entity.type = "Chat" THEN "InputPeerChat"
    ELSE IF entity.has_broadcast /\ ~entity.broadcast THEN "InputPeerChannel"
    ELSE NoPeer

\* GetNotifySettingsRequest(peer) for the dialog at position i
GetNotifySettingsRequest(i) == [op |-> "get", dialog |-> i, mute_until |-> None]

\* UpdateNotifySettingsRequest(peer, InputPeerNotifySettings(mute_until))
UpdateNotifySettingsRequest(i, mute_until) ==
    [op |-> "update", dialog |-> i, mute_until |-> mute_until]

(***************************************************************************)
(* main, mute_chats and unmute_chats.  A call through handle_rate_limit is *)
(* taken at the request it ends by making; the clock moves between the     *)
(* dialogs of a run.                                                       *)
(***************************************************************************)
\* lines 538-549: the command argparse reads off the command line, "error"
\* when it exits over the arguments
ParseArgs(args) ==
    IF args = <<>> THEN "mute"
    ELSE IF Len(args) = 1 /\ args[1] \in {"mute", "unmute"} THEN args[1]
    ELSE "error"

\* a slip: no chat counts as already muted
IsNeverAlreadyMuted(mute_until, n) == FALSE

\* lines 510-512: is_already_muted
IsAlreadyMuted(mute_until, n) == mute_until # None /\ mute_until > n

\* a slip: a chat that is muted until the target is not told apart from the
\* others that are muted
IsMutedAtAll(mute_until, target_mute_until) == mute_until # None

\* a slip: a mute that ends before the target instant is lifted too
IsMutedUntilTargetOrEarlier(mute_until, target_mute_until) ==
    mute_until # None /\ mute_until <= target_mute_until

\* lines 427-429: the chat is muted until the target instant
IsMutedUntilTarget(mute_until, target_mute_until) ==
    mute_until # None /\ mute_until = target_mute_until

\* main, up to the for loop of the command: the manager is there, the
\* arguments are parsed, and unmute_chats works out its target
Main ==
    /\ run_pc = "start"
    /\ status = "built"
    /\ LET command == ParseArgs(argv)
       IN  IF command = "error"
           THEN run_pc' = "usage" /\ UNCHANGED <<idx, target>>
           ELSE IF command = "mute"
           THEN run_pc' = "mute" /\ idx' = 1 /\ UNCHANGED target
           ELSE /\ run_pc' = "unmute"
                /\ idx' = 1
                /\ target' = NextWorkingInstant(
                                GetEffectiveSchedule(manager, "default"), clock)
    /\ UNCHANGED <<argv, end_of_day, clock, dialogs, server, sent, nows, history>>
    /\ UNCHANGED <<dayVars, mgrVars, lookupVars, bindVars, rateVars>>

\* a slip: the already-muted test is made against the new mute_until, so a
\* chat muted for a shorter time is not muted again and one muted for longer
\* is cut short
MuteRequestsUnlessSame(i, notify, n, mute_until) ==
    IF notify # None /\ notify = mute_until
    THEN <<GetNotifySettingsRequest(i)>>
    ELSE <<GetNotifySettingsRequest(i), UpdateNotifySettingsRequest(i, mute_until)>>

\* lines 507-527: the requests made for a dialog that has a peer
MuteRequests(i, notify, n, mute_until) ==
    IF IsAlreadyMuted(notify, n)
    THEN <<GetNotifySettingsRequest(i)>>
    ELSE <<GetNotifySettingsRequest(i), UpdateNotifySettingsRequest(i, mute_until)>>

\* the server's mute_until of each dialog after the requests made
Served(srv, requests) ==
    [i \in DOMAIN srv |->
        IF \E k \in DOMAIN requests :
              requests[k].op = "update" /\ requests[k].dialog = i
        THEN requests[CHOOSE k \in DOMAIN requests :
                        requests[k].op = "update" /\ requests[k].dialog = i].mute_until
        ELSE srv[i]]

\* lines 475-530: one round of the for loop of mute_chats
MuteDialog ==
    /\ run_pc = "mute"
    /\ idx <= Len(dialogs)
    /\ LET dialog == dialogs[idx]
           found  == GetScheduleForGroup(manager, dialog.name)
           group_schedule == found.result
           mute_until == NextWorkingInstant(group_schedule, clock)
           requests ==
               IF GetPeerForDialog(dialog.entity) # NoPeer
               THEN MuteRequests(idx, server[idx], clock, mute_until)
               ELSE <<>>
       IN  IF found.raised # NoError
           THEN run_pc' = "raised" /\ UNCHANGED <<idx, nows, sent, server>>
           ELSE /\ mute_until # None
                /\ nows' = Append(nows, clock)
                /\ sent' = sent \o requests
                /\ server' = Served(server, requests)
                /\ idx' = idx + 1
                /\ UNCHANGED run_pc
    /\ UNCHANGED <<argv, end_of_day, clock, dialogs, target, history>>
    /\ UNCHANGED <<dayVars, mgrVars, lookupVars, bindVars, rateVars>>

\* lines 427-443: the requests made for a dialog that has a peer
UnmuteRequests(i, notify, target_mute_until) ==
    IF IsMutedUntilTarget(notify, target_mute_until)
    THEN <<GetNotifySettingsRequest(i), UpdateNotifySettingsRequest(i, None)>>
    ELSE <<GetNotifySettingsRequest(i)>>

\* lines 420-446: one round of the for loop of unmute_chats
UnmuteDialog ==
    /\ run_pc = "unmute"
    /\ idx <= Len(dialogs)
    /\ target # None
    /\ LET dialog == dialogs[idx]
           requests ==
               IF GetPeerForDialog(dialog.entity) # NoPeer
               THEN UnmuteRequests(idx, server[idx], target)
               ELSE <<>>
       IN  /\ sent' = sent \o requests
           /\ server' = Served(server, requests)
           /\ idx' = idx + 1
    /\ UNCHANGED <<argv, end_of_day, clock, dialogs, nows, target, run_pc, history>>
    /\ UNCHANGED <<dayVars, mgrVars, lookupVars, bindVars, rateVars>>

\* lines 532-535 and 448-451: the for loop is over, the client disconnects
RunDone ==
    /\ run_pc \in {"mute", "unmute"}
    /\ idx > Len(dialogs)
    /\ run_pc' = "done"
    /\ UNCHANGED <<argv, end_of_day, clock, dialogs, server, sent, idx, nows, target, history>>
    /\ UNCHANGED <<dayVars, mgrVars, lookupVars, bindVars, rateVars>>

\* the instants the clock reads: Friday 2025-12-26 at 14:00 and at 19:00,
\* Saturday 2025-12-27 at 11:00, which is 08:00 UTC, and Monday 2025-12-29
\* at 09:30, in the local zone
RunClocks ==
    {Datetime(Epoch + 1, 14 * Hour, LocalOffset),
     Datetime(Epoch + 1, 19 * Hour, LocalOffset),
     Datetime(Epoch + 2, 11 * Hour, LocalOffset),
     Datetime(Epoch + 4, 9 * Hour + Hour \div 2, LocalOffset)}

\* time passes between two rounds of the for loop
Tick ==
    /\ run_pc \in {"mute", "unmute"}
    /\ 1 < idx /\ idx <= Len(dialogs)
    /\ \E later \in RunClocks : later > clock /\ clock' = later
    /\ UNCHANGED <<argv, end_of_day, dialogs, server, sent, idx, nows, target, run_pc, history>>
    /\ UNCHANGED <<dayVars, mgrVars, lookupVars, bindVars, rateVars>>

(***************************************************************************)
(* The configurations, dialogs and command lines a run is made on.         *)
(***************************************************************************)
\* a run goes through at most MaxDialogs dialogs
MaxDialogs == 2

\* 'default' starts at 10:00 in the local zone, rests on Saturday and
\* Sunday and takes Monday 2025-12-29 off; 'a' inherits from it, starts at
\* 09:00 UTC and rests on Sunday only
RunSchedules ==
    <<NewSchedule("default", "", 10 * Hour, "auto", <<5, 6>>, <<>>,
                  <<SingleDate(Epoch + 4)>>),
      NewSchedule("a", "default", 9 * Hour, "UTC", <<6>>, <<>>, <<>>)>>

\* no binding, or chat "a" bound to schedule 'a'
RunBindings == {<<>>, <<NewGroupSetting(<<"a">>, <<>>, "a")>>}

\* what Telegram holds as a dialog's mute_until: nothing, an instant gone
\* by, Tuesday 2025-12-30 10:00 local, or Saturday 2025-12-27 09:00 UTC
MuteStates ==
    {None, Datetime(Epoch, 0, 0), Datetime(Epoch + 5, 10 * Hour, LocalOffset),
     Datetime(Epoch + 2, 9 * Hour, 0)}

Dialog(name, entity) == [name |-> name, entity |-> entity]

\* a dialog with the mute_until Telegram holds for it
DialogPool ==
    {<<Dialog(<<"a">>, Chat), m>> : m \in MuteStates}
    \cup {<<Dialog(<<"b">>, Megagroup), m>> : m \in MuteStates}
    \cup {<<Dialog(<<"b">>, User), None>>,
          <<Dialog(<<"a">>, BroadcastChannel), Datetime(Epoch + 5, 10 * Hour, LocalOffset)>>}

CommandLines == {<<>>, <<"mute">>, <<"unmute">>, <<"mute", "--finish-the-day">>}

InitRun ==
    /\ schedules = RunSchedules
    /\ group_settings \in RunBindings
    /\ status = "new"
    /\ manager = NoManager
    /\ error = NoError
    /\ call = [op |-> "", arg |-> ""]
    /\ result = NoSchedule
    /\ raised = NoError
    /\ walk = NoWalk
    /\ toml = NoToml
    /\ settings = NoSettings
    /\ argv \in CommandLines
    /\ end_of_day = 18 * Hour
    /\ clock \in RunClocks
    /\ \E chosen \in SeqsUpTo(DialogPool, MaxDialogs) :
         /\ dialogs = [i \in DOMAIN chosen |-> chosen[i][1]]
         /\ server = [i \in DOMAIN chosen |-> chosen[i][2]]
    /\ sent = <<>>
    /\ idx = 0
    /\ nows = <<>>
    /\ target = None
    /\ run_pc = "start"
    /\ history = <<>>
    /\ NoDayState
    /\ NoBindingState
    /\ NoRateState

NextRun == Construct \/ Main \/ MuteDialog \/ UnmuteDialog \/ Tick \/ RunDone

SpecRun == InitRun /\ [][NextRun]_vars

(***************************************************************************)
(* The schedules and clocks get_next_working_day is run on.                *)
(***************************************************************************)
SelDays == (Epoch + 1)..(Epoch + MaxSel)

Selectors ==
    {SingleDate(d) : d \in SelDays}
    \cup {DateInterval(p[1], p[2]) :
            p \in {q \in SelDays \X SelDays : q[1] <= q[2]}}

\* the lists of at most one selector, and those of a single date followed
\* by a later interval
SelectorLists ==
    {<<>>} \cup {<<x>> : x \in Selectors}
    \cup {<<SingleDate(a), DateInterval(a + 1, a + 2)>> :
            a \in {x \in SelDays : x + 2 \in SelDays}}

\* no weekend, two days, one day, every day but Friday, every day
WeekendLists ==
    {<<>>, <<5, 6>>, <<6>>, <<0, 1, 2, 3, 5, 6>>, <<0, 1, 2, 3, 4, 5, 6>>}

\* "09:00:00", "10:00:00" and "09:00:00" with a fraction of a second
StartTimes ==
    {ParseTime(<<9, 0, 0>>), ParseTime(<<10, 0, 0>>), ParseTime(<<9, 0, 0, 1>>)}

NowTimes == {ParseTime(<<8, 0, 0>>), ParseTime(<<9, 0, 0>>), ParseTime(<<23, 0, 0>>)}

\* Friday 2025-12-26 and Saturday 2025-12-27
NowDates == {Epoch + 1, Epoch + 2}

InitDay ==
    /\ sched \in [name : {"_effective_default"}, parent : {""},
                  start_of_day : StartTimes, timezone : {"auto"},
                  weekends : WeekendLists,
                  working_weekends : SelectorLists,
                  nonworking_weekdays : SelectorLists]
    /\ now \in [date : NowDates, time : NowTimes]
    /\ starting_day = None
    /\ first_day = None
    /\ next_day = None
    /\ pc = "idle"
    /\ next_instant = None
    /\ NoManagerState
    /\ NoBindingState
    /\ NoRunState
    /\ NoRateState

\* mute_chats, lines 491-501: the date returned is combined with the hour,
\* the minute and the second of start_of_day in the zone of the schedule
CombineStartOfDay ==
    /\ pc = "done"
    /\ next_instant' = Datetime(next_day, HourMinuteSecond(sched.start_of_day),
                                ZoneOffset(sched.timezone))
    /\ pc' = "combined"
    /\ UNCHANGED <<sched, now, starting_day, first_day, next_day, mgrVars, lookupVars, bindVars, runVars, rateVars>>

NextDay == GetNextWorkingDay \/ LoopReturn \/ LoopContinue \/ CombineStartOfDay

SpecDay == InitDay /\ [][NextDay]_vars

\* get_next_working_day is sequential code: a call that has begun is carried
\* on, one step after the other
SpecDayFair == SpecDay /\ WF_vars(NextDay)

(***************************************************************************)
(* Settings: the content of config.toml, the Settings object made of it,   *)
(* and get_schedule_manager.                                               *)
(***************************************************************************)
\* the [time_settings] table of the old format
TimeSettings(start_of_day, timezone, weekends, ww, nw) ==
    [start_of_day |-> start_of_day, timezone |-> timezone, weekends |-> weekends,
     working_weekends |-> ww, nonworking_weekdays |-> nw]

\* a config.toml of the old format: the one table, no schedules
FlatToml(time_settings) ==
    [time_settings |-> <<time_settings>>, schedules |-> <<>>, group_settings |-> <<>>]

\* a config.toml of [[schedules]] and [[group_settings]]
SchedulesToml(list, gs) ==
    [time_settings |-> <<>>, schedules |-> list, group_settings |-> gs]

ValidationError(what, name) == [kind |-> "ValidationError", what |-> what, name |-> name]

\* Settings(...) on the content of config.toml: the fields are auth, schedules and
\* group_settings, and a BaseSettings takes no other key; [status, error]
SettingsInit(toml_content) ==
    IF toml_content.time_settings # <<>>
    THEN [status |-> "failed", error |-> ValidationError("extra_forbidden", "time_settings")]
    ELSE [status |-> "loaded", error |-> NoError]

\* load_settings_from_toml
LoadSettingsFromToml ==
    /\ settings.status = "new"
    /\ settings' = SettingsInit(toml)
    /\ IF SettingsInit(toml).status = "loaded"
       THEN schedules' = toml.schedules /\ group_settings' = toml.group_settings
       ELSE UNCHANGED <<schedules, group_settings>>
    /\ UNCHANGED <<toml, status, manager, error>>
    /\ UNCHANGED <<dayVars, lookupVars, bindVars, runVars, rateVars>>

\* Settings.get_schedule_manager: [status, error, manager]
GetScheduleManagerOf(list, gs) ==
    IF list = <<>> THEN Failed(ValueError("schedules", ""))
    ELSE ManagerInit(list, gs)

\* settings.get_schedule_manager()
GetScheduleManager ==
    /\ settings.status = "loaded"
    /\ status = "none"
    /\ LET r == GetScheduleManagerOf(schedules, group_settings)
       IN  /\ status' = r.status
           /\ error' = r.error
           /\ manager' = r.manager
    /\ UNCHANGED <<toml, settings, schedules, group_settings>>
    /\ UNCHANGED <<dayVars, lookupVars, bindVars, runVars, rateVars>>

\* the tables of the old format the loader is run on
FlatBlocks ==
    {TimeSettings(t, z, w, ww, nw) :
        t \in StartTimes, z \in {"UTC", "auto", "Asia/Tokyo"},
        w \in {<<>>, <<5, 6>>, <<6>>},
        ww \in {<<>>, <<SingleDate(Epoch + 2)>>},
        nw \in {<<>>, <<SingleDate(Epoch + 7)>>}}

\* the one schedule a table of the old format stands for
ScheduleOfBlock(b) ==
    NewSchedule("default", "", b.start_of_day, b.timezone, b.weekends,
                b.working_weekends, b.nonworking_weekdays)

\* the contents of config.toml: the old format, the same settings as one
\* schedule named 'default', and a file with neither
Tomls ==
    {FlatToml(b) : b \in FlatBlocks}
    \cup {SchedulesToml(<<ScheduleOfBlock(b)>>, <<>>) : b \in FlatBlocks}
    \cup {SchedulesToml(<<>>, <<>>)}

InitSettings ==
    /\ toml \in Tomls
    /\ settings = [status |-> "new", error |-> NoError]
    /\ schedules = <<>>
    /\ group_settings = <<>>
    /\ status = "none"
    /\ manager = NoManager
    /\ error = NoError
    /\ call = [op |-> "", arg |-> ""]
    /\ result = NoSchedule
    /\ raised = NoError
    /\ walk = NoWalk
    /\ NoDayState
    /\ NoBindingState
    /\ NoRunState
    /\ NoRateState

NextSettings == LoadSettingsFromToml \/ GetScheduleManager \/ CallGetEffectiveSchedule

SpecSettings == InitSettings /\ [][NextSettings]_vars

(***************************************************************************)
(* _resolve_schedule_property, one turn of its while loop at a time.       *)
(* walk.visited lists the schedules read by self.schedules[current], in    *)
(* the order read; walk.value holds the value returned, as <<value>>.      *)
(***************************************************************************)
\* lines 227-249: the walk w after one more test of "while current"
ResolveTurn(m, w) ==
    IF w.current = ""
    THEN [w EXCEPT !.pc = "returned",
                   !.value = <<PropertyDefault(w.property_name)>>]
    ELSE IF ~Has(m, w.current)
    THEN [w EXCEPT !.pc = "raised"]
    ELSE LET schedule == m.val[w.current]
             value    == schedule[w.property_name]
         IN  IF PropertyIsSet(w.property_name, value)
             THEN [w EXCEPT !.visited = Append(@, w.current),
                            !.pc = "returned",
                            !.value = <<value>>]
             ELSE [w EXCEPT !.visited = Append(@, w.current),
                            !.current = schedule.parent]

\* the properties the walks are followed for: one that some schedules set
\* and one that none sets
WalkedProperties == {"start_of_day", "weekends"}

\* lines 253-262: get_effective_schedule(n) calls _resolve_schedule_property
\* for a property, from n or from 'default' when n is not declared
StartResolve ==
    /\ status = "built"
    /\ walk.pc = "none"
    /\ \E n \in SchedNames \cup {"zz"}, property_name \in WalkedProperties :
         /\ call' = [op |-> "get_effective_schedule", arg |-> n]
         /\ walk' = [property_name |-> property_name,
                     current |-> IF Has(manager, n) THEN n ELSE "default",
                     visited |-> <<>>,
                     value |-> <<>>,
                     pc |-> "loop"]
    /\ UNCHANGED <<result, raised, mgrVars, dayVars, bindVars, runVars, rateVars>>

\* one turn of the loop; a walk is followed for one turn more than there
\* are schedules
Turn ==
    /\ walk.pc = "loop"
    /\ Len(walk.visited) <= Len(manager.keys)
    /\ walk' = ResolveTurn(manager, walk)
    /\ raised' = IF walk'.pc = "raised" THEN KeyError(walk.current) ELSE raised
    /\ UNCHANGED <<call, result, mgrVars, dayVars, bindVars, runVars, rateVars>>

\* the hierarchies the walks are made in: every name declared once, any
\* parent, start_of_day set or not
InitWalk ==
    /\ \E ps \in [1..Len(NameList) -> ParentNames \X {{}, {"start_of_day"}}] :
         schedules = [i \in 1..Len(NameList) |->
                         ProfiledSchedule(i, ps[i][1], ps[i][2])]
    /\ group_settings = <<>>
    /\ status = "new"
    /\ manager = NoManager
    /\ error = NoError
    /\ call = [op |-> "", arg |-> ""]
    /\ result = NoSchedule
    /\ raised = NoError
    /\ walk = NoWalk
    /\ toml = NoToml
    /\ settings = NoSettings
    /\ NoDayState
    /\ NoBindingState
    /\ NoRunState
    /\ NoRateState

NextWalk == Construct \/ StartResolve \/ Turn

SpecWalk == InitWalk /\ [][NextWalk]_vars

\* the loop is a sequential one: a walk that has begun is carried on
SpecWalkFair == SpecWalk /\ WF_vars(Turn)

(***************************************************************************)
(* Two runs of the program, one after the other, on the same config.toml   *)
(* and the same dialogs.  history keeps what the first run read and sent;  *)
(* Telegram keeps the mute_until the first run left.                       *)
(***************************************************************************)
\* the program is started again, for mute or for unmute, at the instant
\* the first run ended or later
Rerun ==
    /\ run_pc = "done"
    /\ history = <<>>
    /\ history' = <<[argv |-> argv, clock |-> clock, nows |-> nows, sent |-> sent]>>
    /\ \E args \in {<<"mute">>, <<"unmute">>}, later \in RunClocks :
         /\ later >= clock
         /\ argv' = args
         /\ clock' = later
    /\ sent' = <<>>
    /\ nows' = <<>>
    /\ idx' = 0
    /\ target' = None
    /\ run_pc' = "start"
    /\ UNCHANGED <<end_of_day, dialogs, server>>
    /\ UNCHANGED <<dayVars, mgrVars, lookupVars, bindVars, rateVars>>

\* the dialogs of the two runs: chats "a" and "b" that Telegram holds no
\* mute for, or one that is gone by, and a user
TwoRunPool ==
    {<<Dialog(<<"a">>, Chat), None>>,
     <<Dialog(<<"a">>, Chat), Datetime(Epoch, 0, 0)>>,
     <<Dialog(<<"b">>, Megagroup), None>>,
     <<Dialog(<<"b">>, User), None>>}

InitTwoRuns ==
    /\ schedules = RunSchedules
    /\ group_settings \in RunBindings
    /\ status = "new"
    /\ manager = NoManager
    /\ error = NoError
    /\ call = [op |-> "", arg |-> ""]
    /\ result = NoSchedule
    /\ raised = NoError
    /\ walk = NoWalk
    /\ toml = NoToml
    /\ settings = NoSettings
    /\ argv = <<"mute">>
    /\ end_of_day = 18 * Hour
    /\ clock \in RunClocks
    /\ \E chosen \in SeqsUpTo(TwoRunPool, MaxDialogs) :
         /\ dialogs = [i \in DOMAIN chosen |-> chosen[i][1]]
         /\ server = [i \in DOMAIN chosen |-> chosen[i][2]]
    /\ sent = <<>>
    /\ idx = 0
    /\ nows = <<>>
    /\ target = None
    /\ run_pc = "start"
    /\ history = <<>>
    /\ NoDayState
    /\ NoBindingState
    /\ NoRateState

NextTwoRuns ==
    Construct \/ Main \/ MuteDialog \/ UnmuteDialog \/ Tick \/ RunDone \/ Rerun

SpecTwoRuns == InitTwoRuns /\ [][NextTwoRuns]_vars

(***************************************************************************)
(* What the claims speak of.                                               *)
(***************************************************************************)
\* a date lies in a list of selectors: some single date equals it, or some
\* interval holds it, both ends included
Covered(items, date) ==
    \E i \in DOMAIN items : items[i].lo <= date /\ date <= items[i].hi

\* a date get_next_working_day may return
Acceptable(s, date) ==
    /\ ~Covered(s.nonworking_weekdays, date)
    /\ \/ WeekdayOf(date) \notin {s.weekends[i] : i \in DOMAIN s.weekends}
       \/ Covered(s.working_weekends, date)

\* C1: get_next_working_day never returns a date that nonworking_weekdays
\* covers, whether or not working_weekends covers it too.
C1_NonworkingNeverReturned ==
    pc = "done" => ~Covered(sched.nonworking_weekdays, next_day)

\* C1's case: a weekend date that both lists cover was the candidate, and
\* the call returned another date.
C1_Witness ==
    /\ pc = "done"
    /\ \E d \in first_day..(next_day - 1) :
         /\ WeekdayOf(d) \in {sched.weekends[i] : i \in DOMAIN sched.weekends}
         /\ Covered(sched.nonworking_weekdays, d)
         /\ Covered(sched.working_weekends, d)

\* C2: the date returned is the earliest acceptable date on or after the
\* first candidate: no acceptable date before it is skipped.
C2_EarliestAcceptable ==
    pc = "done" =>
        /\ next_day >= first_day
        /\ Acceptable(sched, next_day)
        /\ \A d \in first_day..(next_day - 1) : ~Acceptable(sched, d)

\* C2's case: the call returned after rejecting at least two candidates, one
\* as nonworking and one as a plain weekend date.
C2_Witness ==
    /\ pc = "done"
    /\ next_day >= first_day + 2
    /\ \E d \in first_day..(next_day - 1) : Covered(sched.nonworking_weekdays, d)
    /\ \E d \in first_day..(next_day - 1) :
         ~Covered(sched.nonworking_weekdays, d) /\ IsWeekend(sched, d)

\* C3: the first candidate is today when the time of day is strictly before
\* start_of_day, and tomorrow otherwise, the two being equal included.
C3_InitialCandidate ==
    pc # "idle" =>
        /\ (now.time < sched.start_of_day => first_day = now.date)
        /\ (now.time >= sched.start_of_day => first_day = now.date + 1)

\* C3's case: the clock reads start_of_day exactly and the first candidate
\* is tomorrow.
C3_Witness ==
    /\ pc = "loop"
    /\ now.time = sched.start_of_day
    /\ first_day = now.date + 1

(***************************************************************************)
(* The parent graph of a list of schedules.  Where a name is declared      *)
(* twice the manager keeps the later schedule, and the graph is that of    *)
(* the schedules it keeps.                                                 *)
(***************************************************************************)
DeclaredNames == {schedules[i].name : i \in DOMAIN schedules}

\* the position at which a name is first declared
FirstIndex(n) ==
    CHOOSE i \in DOMAIN schedules :
        schedules[i].name = n /\ \A j \in 1..(i - 1) : schedules[j].name # n

\* the parent of the schedule kept under a name
ParentOf(n) ==
    LET last == CHOOSE i \in DOMAIN schedules :
                    /\ schedules[i].name = n
                    /\ \A j \in (i + 1)..Len(schedules) : schedules[j].name # n
    IN  schedules[last].parent

\* the name k parent links above n, "" past the end of the chain
RECURSIVE Ancestor(_, _)
Ancestor(n, k) ==
    IF k = 0 THEN n
    ELSE LET below == Ancestor(n, k - 1)
         IN  IF below \in DeclaredNames THEN ParentOf(below) ELSE ""

\* n is reachable from itself by following one or more parent links
OnCycle(n) ==
    /\ n \in DeclaredNames
    /\ \E k \in 1..Cardinality(DeclaredNames) : Ancestor(n, k) = n

\* the parent chain of n runs into a cycle
ReachesCycle(n) ==
    \E k \in 0..Cardinality(DeclaredNames) : OnCycle(Ancestor(n, k))

HasCycle == \E n \in DeclaredNames : OnCycle(n)

HasDanglingParent ==
    \E i \in DOMAIN schedules :
        schedules[i].parent # "" /\ schedules[i].parent \notin DeclaredNames

ConfigurationError == status = "failed" /\ error.kind = "ValueError"

\* C7: when no declared schedule is named 'default', constructing the
\* manager fails with a configuration error and no manager is produced.
C7_DefaultRequired ==
    (status # "new" /\ "default" \notin DeclaredNames) =>
        ConfigurationError /\ manager = NoManager

\* C7's case: schedules are declared, none is named 'default', nothing else
\* is wrong with them, and construction has failed.
C7_Witness ==
    /\ status = "failed"
    /\ Len(schedules) >= 2
    /\ "default" \notin DeclaredNames
    /\ ~HasDanglingParent
    /\ ~HasCycle

\* C8: when some schedule has a non-empty parent that is not a declared
\* name, constructing the manager fails with a configuration error.
C8_ParentMustBeDeclared ==
    (status # "new" /\ HasDanglingParent) =>
        ConfigurationError /\ manager = NoManager

\* C8's case: 'default' is declared, a parent names no schedule, and
\* construction has failed over that parent.
C8_Witness ==
    /\ status = "failed"
    /\ "default" \in DeclaredNames
    /\ HasDanglingParent
    /\ error.what = "parent"

\* C9: when the parent graph has a cycle, of any length from one up,
\* constructing the manager fails with a configuration error: a manager is
\* only ever built over an acyclic parent graph.
C9_CycleRejected ==
    /\ (status # "new" /\ HasCycle) => ConfigurationError /\ manager = NoManager
    /\ status = "built" => ~HasCycle

\* C9's case: construction has failed over a cycle of two or more
\* schedules.
C9_Witness ==
    /\ status = "failed"
    /\ error.what = "circular"
    /\ \E n \in DeclaredNames : OnCycle(n) /\ ParentOf(n) # n

\* C10 as stated: the schedule the circular-dependency error names is a
\* member of a cycle.
C10_NamedScheduleOnCycle ==
    (status = "failed" /\ error.what = "circular") => OnCycle(error.name)

\* C10 as amended: the schedule the circular-dependency error names is the
\* one the detecting walk started from, the first schedule in declaration
\* order whose parent chain runs into a cycle; it need not be on the cycle.
C10_NamedScheduleLeadsToCycle ==
    (status = "failed" /\ error.what = "circular") =>
        /\ error.name \in DeclaredNames
        /\ ReachesCycle(error.name)
        /\ \A n \in DeclaredNames :
             FirstIndex(n) < FirstIndex(error.name) => ~ReachesCycle(n)

\* C10's case: the error names a schedule that leads into a cycle without
\* being on it.
C10_Witness ==
    /\ status = "failed"
    /\ error.what = "circular"
    /\ ~OnCycle(error.name)
    /\ ReachesCycle(error.name)


(***************************************************************************)
(* The parent chain of a declared schedule, and what it sets.              *)
(***************************************************************************)
\* the schedule kept under a name
Kept(n) ==
    schedules[CHOOSE i \in DOMAIN schedules :
                /\ schedules[i].name = n
                /\ \A j \in (i + 1)..Len(schedules) : schedules[j].name # n]

\* the schedule a lookup of name n resolves
Resolved(n) == IF n \in DeclaredNames THEN n ELSE "default"

\* the chain of n: n, its parent, its parent's parent, ...
ChainOf(n) ==
    LET len == Cardinality({k \in 0..Cardinality(DeclaredNames) : Ancestor(n, k) # ""})
    IN  [k \in 1..len |-> Kept(Ancestor(n, k - 1))]

\* a schedule sets a property: a scalar that is not empty, a list that is
\* not empty
Sets(s, p) ==
    IF p = "start_of_day" THEN s.start_of_day # None
    ELSE IF p = "timezone" THEN s.timezone # ""
    ELSE s[p] # <<>>

\* the position in a chain of the nearest schedule that sets p, 0 if none
NearestSetting(chain, p) ==
    IF \E k \in DOMAIN chain : Sets(chain[k], p)
    THEN CHOOSE k \in DOMAIN chain :
            Sets(chain[k], p) /\ \A j \in 1..(k - 1) : ~Sets(chain[j], p)
    ELSE 0

\* C6: each attribute of the effective schedule is, independently of the
\* others, the value of the nearest schedule in the parent chain (the named
\* schedule included) that sets it.
C6_NearestSettingPerAttribute ==
    call.op = "get_effective_schedule" =>
        \A p \in PropertyNames :
            LET chain == ChainOf(Resolved(call.arg))
                k     == NearestSetting(chain, p)
            IN  k # 0 => result[p] = chain[k][p]

\* C6's case: one resolution takes start_of_day from the parent and
\* timezone from the grandparent, the named schedule setting neither, while
\* the parent sets no timezone.
C6_Witness ==
    /\ call.op = "get_effective_schedule"
    /\ LET chain == ChainOf(Resolved(call.arg))
       IN  /\ Len(chain) >= 3
           /\ NearestSetting(chain, "start_of_day") = 2
           /\ NearestSetting(chain, "timezone") = 3
           /\ result.start_of_day = chain[2].start_of_day
           /\ result.timezone = chain[3].timezone


(***************************************************************************)
(* Group bindings and the chat name looked up.                             *)
(***************************************************************************)
\* the binding at position i names the chat exactly
IsExactFor(i, chat) ==
    group_settings[i].name # <<>> /\ group_settings[i].name = chat

\* the pattern matches a stretch of the chat name that begins at position
\* start, and ends anywhere
MatchesFrom(pattern, chat, start) == MatchHere(pattern, 1, chat, start)

\* search semantics: a match anywhere in the chat name
MatchesAnywhere(pattern, chat) ==
    \E start \in 1..(Len(chat) + 1) : MatchesFrom(pattern, chat, start)

\* the first pattern binding that is taken to match under Sem, 0 if none
FirstPatternBinding(chat, Sem(_, _)) ==
    LET hits == {i \in DOMAIN group_settings :
                   /\ group_settings[i].name_pattern # <<>>
                   /\ RegexValid(group_settings[i].name_pattern)
                   /\ Sem(group_settings[i].name_pattern, chat)}
    IN  IF hits = {} THEN 0 ELSE CHOOSE i \in hits : \A j \in hits : i <= j

\* what the pattern pass returns if patterns match under Sem
PatternPassResult(chat, Sem(_, _)) ==
    LET i == FirstPatternBinding(chat, Sem)
    IN  GetEffectiveSchedule(manager,
            IF i = 0 THEN "default" ELSE group_settings[i].schedule)

\* the lookup went through the pattern pass and returned: no binding names
\* the chat, and no pattern it came to failed to compile
InPatternPass ==
    /\ call.op = "get_schedule_for_group"
    /\ raised = NoError
    /\ \A i \in DOMAIN group_settings : ~IsExactFor(i, call.arg)

\* C4: when some binding's name equals the chat name, the lookup returns
\* the schedule of an exact-name binding, also when a pattern binding that
\* matches the chat name is declared earlier.
C4_ExactBeforePattern ==
    (call.op = "get_schedule_for_group"
        /\ \E i \in DOMAIN group_settings : IsExactFor(i, call.arg)) =>
        /\ raised = NoError
        /\ \E i \in DOMAIN group_settings :
             /\ IsExactFor(i, call.arg)
             /\ result = GetEffectiveSchedule(manager, group_settings[i].schedule)

\* C4's case: a pattern binding that matches the chat name is declared
\* first, an exact binding for another schedule second, and the lookup
\* returned the second one's schedule.
C4_Witness ==
    /\ call.op = "get_schedule_for_group"
    /\ Len(group_settings) = 2
    /\ group_settings[1].name_pattern # <<>>
    /\ MatchesFrom(group_settings[1].name_pattern, call.arg, 1)
    /\ IsExactFor(2, call.arg)
    /\ result = GetEffectiveSchedule(manager, group_settings[2].schedule)
    /\ result # GetEffectiveSchedule(manager, group_settings[1].schedule)

\* C5 as stated: in the pattern pass a pattern matches a chat name when it
\* matches anywhere in it (search semantics).
C5_PatternSearchesAnywhere ==
    InPatternPass => result = PatternPassResult(call.arg, MatchesAnywhere)

\* a match that begins at the first character of the chat name
MatchesAtStart(pattern, chat) == MatchesFrom(pattern, chat, 1)

\* C5 as amended: in the pattern pass a pattern matches a chat name when it
\* matches a stretch that begins at the start of the name (re.match); the
\* match need not reach the end of the name, but one that begins further in
\* does not count.
C5_PatternMatchesAtStart ==
    InPatternPass => result = PatternPassResult(call.arg, MatchesAtStart)

\* C5's case: the lookup took a binding whose pattern matches the start of
\* the chat name and not all of it, after passing over a binding whose
\* pattern matches only further in.
C5_Witness ==
    /\ InPatternPass
    /\ Len(group_settings) = 2
    /\ group_settings[1].name_pattern # <<>>
    /\ ~MatchesAtStart(group_settings[1].name_pattern, call.arg)
    /\ MatchesAnywhere(group_settings[1].name_pattern, call.arg)
    /\ group_settings[2].name_pattern # <<>>
    /\ MatchesAtStart(group_settings[2].name_pattern, call.arg)
    /\ ~MatchesAtStart(group_settings[2].name_pattern \o <<"$">>, call.arg)
    /\ result = GetEffectiveSchedule(manager, group_settings[2].schedule)
    /\ result # GetEffectiveSchedule(manager, group_settings[1].schedule)


(***************************************************************************)
(* The order of the checks of validation.                                  *)
(***************************************************************************)
\* the first schedule, in the order given, whose parent names no schedule
FirstDangling ==
    CHOOSE i \in DOMAIN schedules :
        /\ schedules[i].parent # "" /\ schedules[i].parent \notin DeclaredNames
        /\ \A j \in 1..(i - 1) :
             schedules[j].parent = "" \/ schedules[j].parent \in DeclaredNames

\* C11 as stated: the checks run in the order unknown parent, missing
\* 'default', parent cycle, and the error is that of the first to fail; a
\* list that lacks 'default' and has a dangling parent fails over the parent.
C11_ParentThenDefaultThenCycle ==
    status # "new" =>
        IF HasDanglingParent THEN error.what = "parent"
        ELSE IF "default" \notin DeclaredNames THEN error.what = "default"
        ELSE IF HasCycle THEN error.what = "circular"
        ELSE status = "built"

\* C11 as amended: the checks run in the order missing 'default', unknown
\* parent, parent cycle, and the error is that of the first to fail; a list
\* that lacks 'default' and has a dangling parent fails over 'default'.
C11_DefaultThenParentThenCycle ==
    status # "new" =>
        IF "default" \notin DeclaredNames
        THEN status = "failed" /\ error = ValueError("default", "")
        ELSE IF HasDanglingParent
        THEN /\ status = "failed"
             /\ error = ValueError("parent", schedules[FirstDangling].name)
        ELSE IF HasCycle
        THEN status = "failed" /\ error.kind = "ValueError" /\ error.what = "circular"
        ELSE status = "built" /\ error = NoError

\* C11's case: a list lacks 'default' and has a dangling parent, and
\* construction has failed over 'default'.
C11_Witness ==
    /\ status = "failed"
    /\ "default" \notin DeclaredNames
    /\ HasDanglingParent
    /\ error.what = "default"

(***************************************************************************)
(* The effective schedule of a declared name, read off its parent chain.   *)
(***************************************************************************)
\* the value of property p along a chain: that of the nearest schedule that
\* sets it, otherwise the value given
ChainValue(chain, p, otherwise) ==
    IF NearestSetting(chain, p) = 0 THEN otherwise
    ELSE chain[NearestSetting(chain, p)][p]

NineOClock == 9 * Hour

\* the effective schedule of the declared name n
EffectiveOf(n) ==
    LET chain == ChainOf(n)
    IN  [name |-> "_effective_" \o n,
         parent |-> "",
         start_of_day |-> ChainValue(chain, "start_of_day", NineOClock),
         timezone |-> ChainValue(chain, "timezone", "auto"),
         weekends |-> ChainValue(chain, "weekends", <<>>),
         working_weekends |-> ChainValue(chain, "working_weekends", <<>>),
         nonworking_weekdays |-> ChainValue(chain, "nonworking_weekdays", <<>>)]

\* a pattern binding before position i does not compile
BrokenBefore(i) ==
    \E j \in 1..(i - 1) :
        /\ group_settings[j].name_pattern # <<>>
        /\ ~RegexValid(group_settings[j].name_pattern)

\* the binding a lookup of the chat name comes to apply: the first exact
\* one, else the first whose pattern matches at the start with no pattern
\* before it failing to compile; 0 when there is none
AppliedBinding(chat) ==
    LET exact == {i \in DOMAIN group_settings : IsExactFor(i, chat)}
        first == FirstPatternBinding(chat, MatchesAtStart)
    IN  IF exact # {} THEN CHOOSE i \in exact : \A j \in exact : i <= j
        ELSE IF first # 0 /\ ~BrokenBefore(first) THEN first
        ELSE 0

\* the schedule name a lookup hands to get_effective_schedule, "" when the
\* lookup does not come to it
NameResolved ==
    IF call.op = "get_effective_schedule" THEN call.arg
    ELSE IF call.op = "get_schedule_for_group" /\ AppliedBinding(call.arg) # 0
    THEN group_settings[AppliedBinding(call.arg)].schedule
    ELSE ""

\* C12: when the schedule name resolved is not declared, whether it was
\* passed to get_effective_schedule directly or came from the schedule field
\* of the binding that applies, the result is exactly the effective schedule
\* of 'default' and no error is raised.
C12_UndeclaredFallsBackToDefault ==
    (NameResolved # "" /\ NameResolved \notin DeclaredNames) =>
        raised = NoError /\ result = EffectiveOf("default")

\* C12's case: a binding that refers to an undeclared schedule applied, over
\* a hierarchy where 'default' inherits its start of day, and the lookup
\* returned the effective schedule of 'default'.
C12_Witness ==
    /\ call.op = "get_schedule_for_group"
    /\ AppliedBinding(call.arg) # 0
    /\ NameResolved \notin DeclaredNames
    /\ Kept("default").start_of_day = None
    /\ result.name = "_effective_default"
    /\ result.start_of_day = Kept("a").start_of_day

\* no binding applies to the chat name: none names it, and no name_pattern
\* matches it, at its start or further in (a name_pattern that does not
\* compile matches nothing)
NothingApplies(chat) ==
    /\ \A i \in DOMAIN group_settings : ~IsExactFor(i, chat)
    /\ \A i \in DOMAIN group_settings :
         group_settings[i].name_pattern # <<>> =>
            ~(/\ RegexValid(group_settings[i].name_pattern)
              /\ MatchesAnywhere(group_settings[i].name_pattern, chat))

\* C13: for a chat name that equals no binding's name and is matched by no
\* binding's name_pattern, the list of bindings being empty included,
\* get_schedule_for_group returns the effective schedule of 'default'.
C13_DefaultWhenNothingApplies ==
    (call.op = "get_schedule_for_group" /\ NothingApplies(call.arg)) =>
        raised = NoError /\ result = EffectiveOf("default")

\* the same, over the lists of bindings whose patterns all compile
C13_DefaultWhenPatternsCompile ==
    (/\ call.op = "get_schedule_for_group"
     /\ NothingApplies(call.arg)
     /\ \A i \in DOMAIN group_settings : RegexValid(group_settings[i].name_pattern)) =>
        raised = NoError /\ result = EffectiveOf("default")

\* C14: an attribute that no schedule of the parent chain sets, the
\* resolved schedule included, is 09:00:00 for start_of_day, 'auto' for
\* timezone and the empty list for weekends, working_weekends and
\* nonworking_weekdays; no effective schedule has start_of_day unset or an
\* empty timezone.
C14_DefaultsWhenUnset ==
    call.op = "get_effective_schedule" =>
        LET chain == ChainOf(Resolved(call.arg))
            unset(p) == NearestSetting(chain, p) = 0
        IN  /\ unset("start_of_day") => result.start_of_day = NineOClock
            /\ unset("timezone") => result.timezone = "auto"
            /\ unset("weekends") => result.weekends = <<>>
            /\ unset("working_weekends") => result.working_weekends = <<>>
            /\ unset("nonworking_weekdays") => result.nonworking_weekdays = <<>>
            /\ result.start_of_day # None
            /\ result.timezone # ""

\* C14's case: a chain of two or more schedules sets neither start_of_day
\* nor timezone nor weekends while it sets the date lists, and the effective
\* schedule starts its day at 09:00:00 in zone 'auto' with no weekends.
C14_Witness ==
    /\ call.op = "get_effective_schedule"
    /\ LET chain == ChainOf(Resolved(call.arg))
       IN  /\ Len(chain) >= 2
           /\ NearestSetting(chain, "start_of_day") = 0
           /\ NearestSetting(chain, "timezone") = 0
           /\ NearestSetting(chain, "weekends") = 0
           /\ NearestSetting(chain, "working_weekends") # 0
    /\ result.start_of_day = NineOClock
    /\ result.timezone = "auto"
    /\ result.weekends = <<>>

(***************************************************************************)
(* The construction of a GroupSetting.                                     *)
(***************************************************************************)
\* C15: constructing a GroupSetting succeeds exactly when one of name and
\* name_pattern is non-empty and the other is empty; it fails when both are
\* empty and when both are non-empty.
C15_ExactlyOneOfNameAndPattern ==
    gs_status \in {"built", "failed"} =>
        /\ gs_status = "built" <=>
              (gs_args.name # <<>>) # (gs_args.name_pattern # <<>>)
        /\ (gs_args.name = <<>> /\ gs_args.name_pattern = <<>>) =>
              gs_status = "failed" /\ gs_error.kind = "ValueError"
        /\ (gs_args.name # <<>> /\ gs_args.name_pattern # <<>>) =>
              gs_status = "failed" /\ gs_error.kind = "ValueError"

\* C15's case: a name and a name_pattern were both given, and the
\* construction has failed.
C15_Witness ==
    /\ gs_status = "failed"
    /\ gs_args.name # <<>>
    /\ gs_args.name_pattern # <<>>
    /\ gs_error = ValueError("exclusive", "")

(***************************************************************************)
(* The attempts and sleeps of handle_rate_limit.                           *)
(***************************************************************************)
\* the number of attempts that signal a rate limit before the first that
\* does not
FloodsBefore ==
    (CHOOSE n \in DOMAIN operation :
        /\ operation[n].kind # "flood"
        /\ \A j \in 1..(n - 1) : operation[j].kind = "flood") - 1

\* what handle_rate_limit has done once it is through i attempts and the
\* sleeps between them
ExpectedTrace(i) ==
    [n \in 1..(2 * i - 1) |->
        IF n % 2 = 1 THEN CallEvent(rl_args)
        ELSE SleepEvent(operation[n \div 2].value)]

\* C20: when the first k attempts signal a rate limit and attempt k+1
\* succeeds, the operation is called k+1 times with the same arguments, k
\* sleeps are made, each for the wait of the signal before it and each
\* before the next attempt, and the result is that of attempt k+1; with
\* k = 0 there is one call and no sleep.  Until then no call or sleep is
\* made out of this order, and no exception leaves handle_rate_limit.
C20_RetriesAfterEachWait ==
    (rl_pc # "none" /\ operation[FloodsBefore + 1].kind = "value") =>
        /\ rl_pc # "raised"
        /\ rl_trace = SubSeq(ExpectedTrace(FloodsBefore + 1), 1, Len(rl_trace))
        /\ rl_pc = "returned" =>
              /\ rl_trace = ExpectedTrace(FloodsBefore + 1)
              /\ CallsMade(rl_trace) = FloodsBefore + 1
              /\ Len(rl_trace) - CallsMade(rl_trace) = FloodsBefore
              /\ rl_result = operation[FloodsBefore + 1]

\* C20's case: two attempts signalled rate limits with different waits, the
\* third succeeded, and handle_rate_limit has returned.
C20_Witness ==
    /\ rl_pc = "returned"
    /\ FloodsBefore = 2
    /\ operation[1].value # operation[2].value
    /\ rl_result = ReturnValue("success")

\* the same with no rate limit signalled: one call, no sleep
C20_WitnessNoWait ==
    /\ rl_pc = "returned"
    /\ FloodsBefore = 0
    /\ rl_trace = <<CallEvent(rl_args)>>

(***************************************************************************)
(* Runs of the mute and unmute commands.                                   *)
(***************************************************************************)
\* the dialog at position i is a group chat or a channel that is not a
\* broadcast channel
Candidate(i) ==
    \/ dialogs[i].entity.type = "Chat"
    \/ dialogs[i].entity.type = "Channel" /\ ~dialogs[i].entity.broadcast

Queried(i) == \E k \in DOMAIN sent : sent[k].op = "get" /\ sent[k].dialog = i

Updated(i) == \E k \in DOMAIN sent : sent[k].op = "update" /\ sent[k].dialog = i

\* the effective schedule that governs the dialog at position i: that of
\* the binding that applies to its name, that of 'default' when none does
Governing(i) ==
    LET b == AppliedBinding(dialogs[i].name)
    IN  EffectiveOf(Resolved(IF b = 0 THEN "default" ELSE group_settings[b].schedule))

\* the next working instant of schedule s at an instant: the earliest
\* acceptable date, from today when the time of day in the zone of s is
\* before its start_of_day and from tomorrow otherwise, at start_of_day
DeclaredInstant(s, instant) ==
    LET n     == NowIn(instant, ZoneOffset(s.timezone))
        first == IF n.time < s.start_of_day THEN n.date ELSE n.date + 1
        date  == CHOOSE d \in first..(first + MaxDay) :
                    /\ Acceptable(s, d)
                    /\ \A e \in first..(d - 1) : ~Acceptable(s, e)
    IN  Datetime(date, s.start_of_day, ZoneOffset(s.timezone))

MuteCommand == ParseArgs(argv) = "mute" \/ (Len(argv) > 0 /\ argv[1] = "mute")

FinishTheDay == \E k \in DOMAIN argv : argv[k] = "--finish-the-day"

\* the time of day the run read for the dialog at position i, in the zone
\* of the schedule that governs it
TimeOfDayFor(i) == NowIn(nows[i], ZoneOffset(Governing(i).timezone)).time

\* C16: the mute command goes through a candidate chat, querying its notify
\* settings and muting it unless it is muted already, when now is after the
\* end_of_day of the governing schedule or --finish-the-day is given; when
\* now is between start_of_day and end_of_day and the flag is not given, the
\* chat is skipped: no query and no update is sent for it.
C16_WorkingHoursProtection ==
    (MuteCommand /\ run_pc \in {"done", "usage"}) =>
        \A i \in DOMAIN dialogs :
            Candidate(i) =>
                /\ (FinishTheDay \/ (i <= Len(nows) /\ TimeOfDayFor(i) > end_of_day)) =>
                      /\ Queried(i)
                      /\ Updated(i) \/ (server[i] # None /\ server[i] > nows[i])
                /\ (/\ ~FinishTheDay
                    /\ i <= Len(nows)
                    /\ Governing(i).start_of_day <= TimeOfDayFor(i)
                    /\ TimeOfDayFor(i) < end_of_day) =>
                      ~Queried(i) /\ ~Updated(i)

\* the positions in sent' of the update requests the step has added
NewUpdates == {k \in (Len(sent) + 1)..Len(sent') : sent'[k].op = "update"}

\* C17: the unmute command sends an unmute update for a candidate chat
\* exactly when the chat's mute_until is set and equals the target instant,
\* the next working day of the effective 'default' schedule at its
\* start_of_day; every other chat gets no update and keeps its mute_until.
C17_UnmuteOnlyAtTarget ==
    [][/\ (run_pc = "start" /\ run_pc' = "unmute") =>
             target' = DeclaredInstant(EffectiveOf("default"), clock)
       /\ (run_pc = "unmute" /\ idx' = idx + 1) =>
             /\ NewUpdates # {} <=>
                   (Candidate(idx) /\ server[idx] # None /\ server[idx] = target)
             /\ \A k \in NewUpdates :
                   sent'[k] = UpdateNotifySettingsRequest(idx, None)
             /\ NewUpdates # {} => server'[idx] = None
             /\ NewUpdates = {} => server'[idx] = server[idx]
             /\ \A j \in DOMAIN server : j # idx => server'[j] = server[j]]_vars

\* C17's case: an unmute run is over; it has unmuted a chat that was muted
\* until the target and has left alone a candidate chat that is muted until
\* another instant, later than now.
C17_Witness ==
    /\ run_pc = "done"
    /\ ParseArgs(argv) = "unmute"
    /\ \E i \in DOMAIN dialogs :
         Candidate(i) /\ Updated(i) /\ server[i] = None
    /\ \E j \in DOMAIN dialogs :
         /\ Candidate(j) /\ Queried(j) /\ ~Updated(j)
         /\ server[j] # None /\ server[j] # target /\ server[j] > clock

\* C18: in a mute run, a candidate chat whose mute_until is set and
\* strictly later than the now read for it is left as it is: no update
\* request is sent for it and its mute_until stays what it was.
C18_AlreadyMutedLeftAlone ==
    [][(/\ run_pc = "mute"
        /\ idx' = idx + 1
        /\ Candidate(idx)
        /\ server[idx] # None
        /\ server[idx] > clock) =>
            /\ NewUpdates = {}
            /\ server' = server]_vars

\* C18's case: a mute run is over; a candidate chat that was muted until
\* later than both now and the instant the run mutes until was queried and
\* has kept its mute_until.
C18_Witness ==
    /\ run_pc = "done"
    /\ ParseArgs(argv) = "mute"
    /\ \E i \in DOMAIN dialogs :
         /\ Candidate(i) /\ Queried(i) /\ ~Updated(i)
         /\ server[i] # None
         /\ server[i] > nows[i]
         /\ server[i] > DeclaredInstant(Governing(i), nows[i])

\* C19: in a run of either command, every notify-settings request, query or
\* update, is for a group chat or a channel that is not a broadcast channel;
\* none is ever sent for a user's dialog or for a broadcast channel.
C19_RequestsOnlyForCandidates ==
    \A k \in DOMAIN sent : Candidate(sent[k].dialog)

\* C19's case: an unmute run is over that went through a broadcast channel
\* muted until the target and through a candidate chat; requests were sent
\* for the chat and none for the channel, which is muted as before.
C19_Witness ==
    /\ run_pc = "done"
    /\ ParseArgs(argv) = "unmute"
    /\ sent # <<>>
    /\ \E i \in DOMAIN dialogs :
         /\ dialogs[i].entity = BroadcastChannel
         /\ ~Queried(i) /\ ~Updated(i)
         /\ server[i] = target

\* the same for a user's dialog in a mute run
C19_WitnessUser ==
    /\ run_pc = "done"
    /\ ParseArgs(argv) = "mute"
    /\ sent # <<>>
    /\ \E i \in DOMAIN dialogs :
         dialogs[i].entity = User /\ ~Queried(i) /\ ~Updated(i)


(***************************************************************************)
(* The two formats of config.toml.                                         *)
(***************************************************************************)
\* the load of config.toml has come to its end: Settings(...) has failed,
\* or get_schedule_manager has returned or failed
Settled == settings.status = "failed" \/ status \in {"built", "failed"}

\* C21: a config.toml of the old format, a [time_settings] table and no
\* schedules, yields a schedule manager, and the effective schedule of
\* 'default' has the table's start_of_day, timezone and weekends, as if the
\* table were one schedule named 'default' with no parent.
C21_FlatFormatIsSingleDefault ==
    (toml.time_settings # <<>> /\ Settled) =>
        /\ settings.status = "loaded"
        /\ status = "built"
        /\ LET b == toml.time_settings[1]
               e == GetEffectiveSchedule(manager, "default")
           IN  /\ manager = ManagerInit(<<ScheduleOfBlock(b)>>, <<>>).manager
               /\ e.start_of_day = b.start_of_day
               /\ e.timezone = b.timezone
               /\ e.weekends = b.weekends

\* what the old format should come to is what the same settings written as
\* one schedule named 'default' do come to
C21_SingleDefaultLoads ==
    (/\ toml.time_settings = <<>>
     /\ Len(toml.schedules) = 1
     /\ call.op = "get_effective_schedule") =>
        /\ result.start_of_day = toml.schedules[1].start_of_day
        /\ result.timezone = toml.schedules[1].timezone
        /\ result.weekends = toml.schedules[1].weekends

(***************************************************************************)
(* Errors after construction.                                              *)
(***************************************************************************)
\* every binding the manager was given is one GroupSetting(...) accepts
BindingsAccepted ==
    \A i \in DOMAIN group_settings :
        GroupSettingInit(group_settings[i].name, group_settings[i].name_pattern,
                         group_settings[i].schedule).status = "built"

\* the lookup returned an effective schedule
ReturnedEffective ==
    /\ raised = NoError
    /\ result.parent = ""
    /\ result.start_of_day # None
    /\ result.timezone # ""
    /\ \E n \in DeclaredNames : result.name = "_effective_" \o n

\* C22: every configuration error is detected at construction: once the
\* schedules, the bindings, with whatever name_pattern they were accepted
\* with, and the manager are constructed, get_effective_schedule for any
\* schedule name and get_schedule_for_group for any chat name return an
\* effective schedule and never fail.
C22_NoErrorAfterConstruction ==
    (status = "built" /\ BindingsAccepted /\ call.op # "") => ReturnedEffective

\* get_effective_schedule alone never fails on a manager that was built
C22_ResolutionNeverFails ==
    (status = "built" /\ call.op = "get_effective_schedule") => ReturnedEffective

(***************************************************************************)
(* The instant a mute run mutes a chat until.                              *)
(***************************************************************************)
\* the next working date of schedule s at an instant: the earliest
\* acceptable date, from today in the zone of s when the time of day there
\* is before start_of_day, and from tomorrow otherwise
DeclaredDate(s, instant) ==
    LET n     == NowIn(instant, ZoneOffset(s.timezone))
        first == IF n.time < s.start_of_day THEN n.date ELSE n.date + 1
    IN  CHOOSE d \in first..(first + MaxDay) :
            /\ Acceptable(s, d)
            /\ \A e \in first..(d - 1) : ~Acceptable(s, e)

\* that date at the hour, minute and second of start_of_day, in the zone
\* of s
DeclaredMuteUntil(s, instant) ==
    (DeclaredDate(s, instant) - Epoch) * DayLength
        + HourMinuteSecond(s.start_of_day) - ZoneOffset(s.timezone)

\* C23: for every candidate chat a mute run mutes, the mute-until instant
\* sent is the next working date of the effective schedule that governs the
\* chat's name, at that schedule's start_of_day hour, minute and second,
\* the date chosen and the instant built in that schedule's zone, 'auto'
\* being the local zone.
C23_MuteUntilOfGoverningSchedule ==
    ParseArgs(argv) = "mute" =>
        \A k \in DOMAIN sent :
            sent[k].op = "update" =>
                /\ Candidate(sent[k].dialog)
                /\ sent[k].mute_until =
                      DeclaredMuteUntil(Governing(sent[k].dialog), nows[sent[k].dialog])

\* C23's case: a mute run is over that muted a chat bound to a schedule
\* whose zone is not the local one, at an instant before start_of_day in
\* that zone and after it in the local zone, until start_of_day of the same
\* day in the schedule's zone, and a chat that 'default' governs.
C23_Witness ==
    /\ run_pc = "done"
    /\ ParseArgs(argv) = "mute"
    /\ \E k \in DOMAIN sent :
         LET s == Governing(sent[k].dialog)
             n == nows[sent[k].dialog]
         IN  /\ sent[k].op = "update"
             /\ s.timezone = "UTC"
             /\ NowIn(n, ZoneOffset("UTC")).time < s.start_of_day
             /\ NowIn(n, LocalOffset).time > s.start_of_day
             /\ sent[k].mute_until =
                   Datetime(NowIn(n, ZoneOffset("UTC")).date, s.start_of_day, 0)
             /\ sent[k].mute_until # DeclaredMuteUntil(EffectiveOf("default"), n)
    /\ \E k \in DOMAIN sent :
         /\ sent[k].op = "update"
         /\ Governing(sent[k].dialog) = EffectiveOf("default")

(***************************************************************************)
(* Lists that are empty.                                                   *)
(***************************************************************************)
ListProperties == {"weekends", "working_weekends", "nonworking_weekdays"}

\* the positions in a chain of the schedules whose list p is not empty
NonEmptyAt(chain, p) == {k \in DOMAIN chain : Len(chain[k][p]) > 0}

\* C24: an empty weekends, working_weekends or nonworking_weekdays list
\* counts as unset: resolution passes over the schedule for that attribute
\* and takes the list of the nearest ancestor where it is not empty; a
\* child with weekends = [] under a parent with weekends resolves to the
\* parent's weekends.
C24_EmptyListInherits ==
    call.op = "get_effective_schedule" =>
        \A p \in ListProperties :
            LET chain == ChainOf(Resolved(call.arg))
                at    == NonEmptyAt(chain, p)
            IN  /\ at = {} => result[p] = <<>>
                /\ at # {} =>
                      result[p] = chain[CHOOSE k \in at : \A j \in at : k <= j][p]
                /\ (Len(chain) >= 2 /\ chain[1][p] = <<>> /\ chain[2][p] # <<>>) =>
                      result[p] = chain[2][p]

\* C24's case: a schedule that sets its start_of_day and has no weekends,
\* under a parent that has weekends, resolved to the parent's weekends and
\* to its own start_of_day.
C24_Witness ==
    /\ call.op = "get_effective_schedule"
    /\ LET chain == ChainOf(Resolved(call.arg))
       IN  /\ Len(chain) >= 2
           /\ chain[1].weekends = <<>>
           /\ chain[1].start_of_day # None
           /\ chain[2].weekends # <<>>
           /\ result.weekends = chain[2].weekends
           /\ result.start_of_day = chain[1].start_of_day

(***************************************************************************)
(* The order of the bindings within a pass.                                *)
(***************************************************************************)
\* the bindings whose name is the chat name
ExactBindings(chat) == {i \in DOMAIN group_settings : IsExactFor(i, chat)}

\* the bindings whose name_pattern matches the chat name
MatchingBindings(chat) ==
    {i \in DOMAIN group_settings :
        /\ group_settings[i].name_pattern # <<>>
        /\ RegexValid(group_settings[i].name_pattern)
        /\ MatchesAtStart(group_settings[i].name_pattern, chat)}

Earliest(S) == CHOOSE i \in S : \A j \in S : i <= j

\* the lookup returned the effective schedule the binding at i refers to
DeterminedBy(i) ==
    /\ raised = NoError
    /\ result = EffectiveOf(Resolved(group_settings[i].schedule))

\* C25: within each pass the bindings are scanned in the order declared:
\* when several bindings name the chat, the earliest of them determines the
\* schedule, and when none names it and several name_patterns match it, the
\* earliest binding whose pattern matches determines the schedule.
C25_EarliestBindingInEachPass ==
    call.op = "get_schedule_for_group" =>
        /\ ExactBindings(call.arg) # {} =>
              DeterminedBy(Earliest(ExactBindings(call.arg)))
        /\ (/\ ExactBindings(call.arg) = {}
            /\ Cardinality(MatchingBindings(call.arg)) >= 2) =>
              DeterminedBy(Earliest(MatchingBindings(call.arg)))

\* the same, over the lookups where every name_pattern declared before the
\* earliest that matches compiles
C25_EarliestWhenPatternsCompile ==
    call.op = "get_schedule_for_group" =>
        /\ ExactBindings(call.arg) # {} =>
              DeterminedBy(Earliest(ExactBindings(call.arg)))
        /\ (/\ ExactBindings(call.arg) = {}
            /\ MatchingBindings(call.arg) # {}
            /\ ~BrokenBefore(Earliest(MatchingBindings(call.arg)))) =>
              DeterminedBy(Earliest(MatchingBindings(call.arg)))

\* two bindings name the chat, for different schedules, and the first one
\* determined the schedule
C25_ExactOrderReached ==
    /\ call.op = "get_schedule_for_group"
    /\ Cardinality(ExactBindings(call.arg)) = 2
    /\ DeterminedBy(1)
    /\ ~DeterminedBy(2)

\* two name_patterns match the chat, for different schedules, and the first
\* one determined the schedule
C25_PatternOrderReached ==
    /\ call.op = "get_schedule_for_group"
    /\ ExactBindings(call.arg) = {}
    /\ Cardinality(MatchingBindings(call.arg)) = 2
    /\ DeterminedBy(Earliest(MatchingBindings(call.arg)))
    /\ ~DeterminedBy(CHOOSE i \in MatchingBindings(call.arg) :
                        i # Earliest(MatchingBindings(call.arg)))

(***************************************************************************)
(* The walk up the parent chain.                                           *)
(***************************************************************************)
\* C26: in a manager that was built, with N schedules declared, a walk of
\* _resolve_schedule_property reads at most N schedules, reads none twice,
\* reads only declared ones, and comes to its return.
C26_WalkBoundedByDeclared ==
    /\ [](walk.pc # "none" =>
            /\ Len(walk.visited) <= Len(manager.keys)
            /\ \A i, j \in DOMAIN walk.visited :
                  walk.visited[i] = walk.visited[j] => i = j
            /\ \A i \in DOMAIN walk.visited : Has(manager, walk.visited[i])
            /\ walk.pc # "raised")
    /\ (walk.pc = "loop") ~> (walk.pc = "returned")

\* a walk returned after it read every declared schedule, finding the
\* property set nowhere
C26_Witness ==
    /\ walk.pc = "returned"
    /\ Len(manager.keys) = Len(NameList)
    /\ Len(walk.visited) = Len(manager.keys)
    /\ walk.value = <<PropertyDefault(walk.property_name)>>

\* the walk returns what _resolve_schedule_property is taken to return
\* everywhere else
C26_WalkAgreesWithResolve ==
    walk.pc = "returned" =>
        walk.value = <<ResolveScheduleProperty(manager,
                           IF Has(manager, call.arg) THEN call.arg ELSE "default",
                           walk.property_name)>>

(***************************************************************************)
(* The end of the date-selection loop.                                     *)
(***************************************************************************)
\* some weekday is not among the weekends of s
HasWorkingWeekday(s) ==
    \E wd \in 0..6 : \A i \in DOMAIN s.weekends : s.weekends[i] # wd

\* C27: when one of the seven weekdays at least is not a weekend of the
\* schedule, the loop of get_next_working_day comes to accept a date,
\* whatever the clock reads and whatever the two lists of selectors hold.
C27_LoopEndsByAccepting ==
    (pc = "loop" /\ HasWorkingWeekday(sched)) ~> (pc = "done" /\ next_day # None)

\* the loop accepted a date after it had rejected six candidates and more,
\* under a schedule whose one working weekday is Friday
C27_Witness ==
    /\ pc = "done"
    /\ HasWorkingWeekday(sched)
    /\ Len(sched.weekends) = 6
    /\ sched.nonworking_weekdays # <<>>
    /\ next_day >= first_day + 6

(***************************************************************************)
(* The next working instant and the clock.                                 *)
(***************************************************************************)
\* the instant the clock read in get_next_working_day
NowInstant == Datetime(now.date, now.time, ZoneOffset(sched.timezone))

\* C28: the next working instant, the accepted date combined with
\* start_of_day in the zone of the schedule, is strictly later than now:
\* the accepted date is not before today, and it is today only when the
\* time of day of now is strictly before start_of_day.
C28_NextInstantAfterNow ==
    pc = "combined" =>
        /\ next_day >= now.date
        /\ next_day = now.date => now.time < sched.start_of_day
        /\ next_instant > NowInstant

\* what holds of the accepted date alone
C28_AcceptedDateNotBeforeToday ==
    pc \in {"done", "combined"} =>
        /\ next_day >= now.date
        /\ next_day = now.date => now.time < sched.start_of_day

\* the same as C28 for a start_of_day of whole seconds
C28_AfterNowForWholeSeconds ==
    (pc = "combined" /\ sched.start_of_day = HourMinuteSecond(sched.start_of_day)) =>
        next_instant > NowInstant

\* today was accepted and combined with start_of_day
C28_TodayCombined ==
    /\ pc = "combined"
    /\ next_day = now.date
    /\ next_instant > NowInstant

(***************************************************************************)
(* A run that follows a mute run.                                          *)
(***************************************************************************)
\* the first run was a mute run and the run under way is a run of command
SecondRunOf(command) ==
    /\ history # <<>>
    /\ ParseArgs(history[1].argv) = "mute"
    /\ ParseArgs(argv) = command

\* the first run sent an update request for the dialog at i
MutedByFirstRun(i) ==
    \E k \in DOMAIN history[1].sent :
        history[1].sent[k].op = "update" /\ history[1].sent[k].dialog = i

\* the mute_until the first run set for the dialog at i
SetByFirstRun(i) ==
    history[1].sent[CHOOSE k \in DOMAIN history[1].sent :
        history[1].sent[k].op = "update" /\ history[1].sent[k].dialog = i].mute_until

\* the run under way sent an update request for the dialog at i
UpdatedNow(i) ==
    \E k \in DOMAIN sent : sent[k].op = "update" /\ sent[k].dialog = i

\* C29: a second mute run sends no update request for a chat the first mute
\* run muted when its now, read at that chat, is earlier than the mute_until
\* the first run set; Telegram's mute_until of the chat stays as it was set.
C29_SecondMuteLeavesMutesInForce ==
    SecondRunOf("mute") =>
        \A i \in DOMAIN nows :
            (MutedByFirstRun(i) /\ nows[i] < SetByFirstRun(i)) =>
                /\ ~UpdatedNow(i)
                /\ server[i] = SetByFirstRun(i)

\* a second mute run, at a later instant, went past a chat the first run
\* muted and whose mute is in force
C29_Witness ==
    /\ SecondRunOf("mute")
    /\ run_pc = "done"
    /\ clock > history[1].clock
    /\ \E i \in DOMAIN nows :
          /\ MutedByFirstRun(i)
          /\ nows[i] < SetByFirstRun(i)
          /\ [op |-> "get", dialog |-> i, mute_until |-> None]
                \in {sent[k] : k \in DOMAIN sent}

\* the unmute run was made at the now every round of the mute run read
SameNow ==
    /\ clock = history[1].clock
    /\ \A i \in DOMAIN history[1].nows : history[1].nows[i] = clock

\* the next working instant of the schedule that governs the dialog at i
GoverningInstant(i) ==
    NextWorkingInstant(GetScheduleForGroup(manager, dialogs[i].name).result, clock)

\* the next working instant of 'default'
DefaultInstant ==
    NextWorkingInstant(GetEffectiveSchedule(manager, "default"), clock)

\* C30: when unmute has run after mute at the same now, the chats it
\* unmuted among those mute had muted are the ones whose governing schedule
\* gives the next working instant of 'default'; a chat muted under a
\* schedule that gives another instant is still muted, as mute left it.
C30_UnmuteLiftsDefaultInstantOnly ==
    (SecondRunOf("unmute") /\ SameNow /\ run_pc = "done") =>
        \A i \in DOMAIN dialogs :
            MutedByFirstRun(i) =>
                /\ UpdatedNow(i) <=> GoverningInstant(i) = DefaultInstant
                /\ server[i] = IF GoverningInstant(i) = DefaultInstant
                               THEN None
                               ELSE SetByFirstRun(i)

\* unmute, run at the now of mute, lifted the mute of one chat and left the
\* mute of another, which a schedule of its own governs
C30_Witness ==
    /\ SecondRunOf("unmute")
    /\ SameNow
    /\ run_pc = "done"
    /\ \E i, j \in DOMAIN dialogs :
          /\ MutedByFirstRun(i)
          /\ MutedByFirstRun(j)
          /\ server[i] = None
          /\ server[j] = SetByFirstRun(j)
          /\ server[j] # None
=============================================================================
